---- MODULE Spec2Model ----
(***************************************************************************)
(* Jester realtime relay (src/src/server.ts) and its Kalshi betting module *)
(* (src/src/kalshi.ts) as a state machine.                                 *)
(*                                                                         *)
(* One action is one turn of the Node event loop: an event handler run to  *)
(* completion together with the promise continuations it makes runnable,   *)
(* up to the next wait for I/O.  The effects a turn has on the outside     *)
(* world (frames written to sockets, pings, terminations, HTTP requests    *)
(* started) are recorded, in program order, in stepLog.                    *)
(***************************************************************************)
EXTENDS Integers, Sequences, FiniteSets, TLC

\* ------------------------------------------------------------------ bounds
MaxConns == 3
MaxPresses == 2

Conns == 1..MaxConns
Presses == 1..MaxPresses

\* ------------------------------------------------------------------ types
Roles == {"control", "display"}
Unset == "unset"
Sides == {"home", "away", "cancel"}

\* Raw inbound frames: the three well-formed shapes and malformed ones.
RawMessages ==
    {[type |-> "register", arg |-> r] : r \in Roles \cup {"admin"}}
    \cup {[type |-> "trigger", arg |-> s] : s \in Sides \cup {"up"}}
    \cup {[type |-> "ping", arg |-> ""], [type |-> "reset", arg |-> ""],
          [type |-> "not-json", arg |-> ""]}

Invalid == [type |-> "invalid", arg |-> ""]

VARIABLES
    clients,      \* the registry Map, as the sequence of its keys in insertion order
    readyState,   \* ws.readyState of every connection ("NONE" before it connects)
    role,         \* ClientRecord.role
    isAlive,      \* ClientRecord.isAlive
    nextId,       \* the next connection to be accepted
    received,     \* per connection, the flashes written to its socket, in order
    nPress,       \* number of control triggers processed so far
    lastEvent,    \* the event handled by the last turn
    stepLog,      \* the effects of the last turn, in program order
    creds,        \* which of ACCESS_KEY and PRIVATE_KEY the environment sets
    configFile,   \* the persisted configuration file
    runtimeConfig,
    tasks,        \* per control trigger, the run of handleKalshiTrigger it started
    testEventLog,
    liveEventLog

relayVars == <<clients, readyState, role, isAlive, nextId, received, nPress>>
tradeVars == <<creds, configFile, runtimeConfig, tasks, testEventLog, liveEventLog>>
vars == <<clients, readyState, role, isAlive, nextId, received, nPress,
          lastEvent, stepLog, creds, configFile, runtimeConfig, tasks,
          testEventLog, liveEventLog>>

\* ------------------------------------------------------------ helpers
Range(s) == {s[i] : i \in 1..Len(s)}

RECURSIVE SeqFilter(_, _)
SeqFilter(s, keep) ==
    IF s = <<>> THEN <<>>
    ELSE (IF Head(s) \in keep THEN <<Head(s)>> ELSE <<>>) \o SeqFilter(Tail(s), keep)

\* ------------------------------------------------------------ server.ts
inboundSchemaParse(raw) ==
    CASE raw.type = "register" /\ raw.arg \in Roles -> raw
      [] raw.type = "trigger" /\ raw.arg \in Sides -> raw
      [] raw.type = "ping" -> [type |-> "ping", arg |-> ""]
      [] OTHER -> Invalid

countByRole_EverRegistered(r, cl, rl) == Cardinality({c \in DOMAIN rl : rl[c] = r})

countByRole(r, cl, rl) == Cardinality({c \in Range(cl) : rl[c] = r})

\* The frames send() writes: nothing unless the sender's socket is open.
send(c, msg, rs) ==
    IF rs[c] = "OPEN" THEN <<[op |-> "send", to |-> c, msg |-> msg]>> ELSE <<>>

RECURSIVE broadcast(_, _, _, _, _)
broadcast(payload, filter, cl, rl, rs) ==
    IF cl = <<>> THEN <<>>
    ELSE LET c == Head(cl)
             rest == broadcast(payload, filter, Tail(cl), rl, rs)
         IN IF rs[c] # "OPEN" THEN rest
            ELSE IF rl[c] \notin filter THEN rest
            ELSE <<[op |-> "send", to |-> c, msg |-> payload]>> \o rest

AnyRole == Roles \cup {Unset}

broadcastCounts_Silent(cl, rl, rs) == <<>>

broadcastCounts(cl, rl, rs) ==
    broadcast([type |-> "status",
               controlCount |-> countByRole("control", cl, rl),
               displayCount |-> countByRole("display", cl, rl)],
              AnyRole, cl, rl, rs)

\* The flashes among the effects of a turn, appended to each target's stream.
RECURSIVE Deliver_Lifo(_, _)
Deliver_Lifo(rcv, log) ==
    IF log = <<>> THEN rcv
    ELSE LET e == Head(log)
             nxt == IF e.op = "send" /\ e.msg.type = "flash"
                    THEN [rcv EXCEPT ![e.to] = <<e.msg.at>> \o @]
                    ELSE rcv
         IN Deliver_Lifo(nxt, Tail(log))

RECURSIVE Deliver(_, _)
Deliver(rcv, log) ==
    IF log = <<>> THEN rcv
    ELSE LET e == Head(log)
             nxt == IF e.op = "send" /\ e.msg.type = "flash"
                    THEN [rcv EXCEPT ![e.to] = Append(@, e.msg.at)]
                    ELSE rcv
         IN Deliver(nxt, Tail(log))

\* ------------------------------------------------------------ kalshi.ts
\* Strings the module computes on are tuples of one-character strings.
LowerChars == <<"a", "b", "c", "d", "e", "f", "g", "h", "i", "j", "k", "l", "m",
                "n", "o", "p", "q", "r", "s", "t", "u", "v", "w", "x", "y", "z">>
UpperChars == <<"A", "B", "C", "D", "E", "F", "G", "H", "I", "J", "K", "L", "M",
                "N", "O", "P", "Q", "R", "S", "T", "U", "V", "W", "X", "Y", "Z">>
DigitChars == {"0", "1", "2", "3", "4", "5", "6", "7", "8", "9"}

toUpperChar(ch) ==
    IF \E i \in 1..26 : LowerChars[i] = ch
    THEN UpperChars[CHOOSE i \in 1..26 : LowerChars[i] = ch]
    ELSE ch

toUpperCase(str) == [i \in 1..Len(str) |-> toUpperChar(str[i])]

RECURSIVE trimStart(_)
trimStart(str) ==
    IF str # <<>> /\ Head(str) = " " THEN trimStart(Tail(str)) ELSE str

RECURSIVE trimEnd(_)
trimEnd(str) ==
    IF str # <<>> /\ str[Len(str)] = " " THEN trimEnd(SubSeq(str, 1, Len(str) - 1)) ELSE str

trim(str) == trimEnd(trimStart(str))

\* replace(/[^A-Z0-9_.-]/g, '')
TokenChars == Range(UpperChars) \cup DigitChars \cup {"_", ".", "-"}

sanitizeToken(value) == SeqFilter(toUpperCase(trim(value)), TokenChars)

\* split('.')
RECURSIVE split(_, _)
split(str, cur) ==
    IF str = <<>> THEN <<cur>>
    ELSE IF Head(str) = "." THEN <<cur>> \o split(Tail(str), <<>>)
    ELSE split(Tail(str), Append(cur, Head(str)))

normalizeSegments(ticker) == split(toUpperCase(ticker), <<>>)

hasTeamCodes(ticker, homeCode, awayCode) ==
    LET segments == normalizeSegments(ticker)
    IN toUpperCase(homeCode) \in Range(segments) /\ toUpperCase(awayCode) \in Range(segments)

Null == <<>>
SegH == <<"H">>
SegA == <<"A">>

extractSide(segments) ==
    LET n == Len(segments)
        isSide(x) == x = SegH \/ x = SegA
    IN IF isSide(segments[n]) THEN segments[n]
       ELSE IF n >= 2 /\ isSide(segments[n - 1]) THEN segments[n - 1]
       ELSE IF \E i \in 1..n : isSide(segments[i])
       THEN segments[CHOOSE i \in 1..n : isSide(segments[i])
                                      /\ \A j \in 1..(i - 1) : ~isSide(segments[j])]
       ELSE Null

isMoneyline_Any(segments) == TRUE

isMoneyline(segments) == <<"M", "L">> \in Range(segments)

isSpread(segments) == <<"S", "P">> \in Range(segments)

sideCodeOf(side) == IF side = "home" THEN SegH ELSE SegA

\* A JavaScript number is [fin, num, den]: num/den when finite (NaN and the
\* infinities have fin = FALSE).  The result is an integer.
Num(n) == [fin |-> TRUE, num |-> n, den |-> 1]

normalizeUnitSize_NoMin(value) ==
    IF ~value.fin THEN 1 ELSE value.num \div value.den

normalizeUnitSize(value) ==
    IF ~value.fin THEN 1
    ELSE LET floor == value.num \div value.den
         IN IF floor < 1 THEN 1 ELSE floor

Str_Basketball == <<"B", "a", "s", "k", "e", "t", "b", "a", "l", "l">>
Str_ProBasketballM == <<"P", "r", "o", " ", "B", "a", "s", "k", "e", "t", "b", "a", "l", "l",
                        " ", "(", "M", ")">>
Str_Games == <<"G", "a", "m", "e", "s">>

defaultConfig ==
    [enabled |-> FALSE, moneylineEnabled |-> TRUE, spreadEnabled |-> FALSE,
     sport |-> Str_Basketball, competition |-> Str_ProBasketballM, scope |-> Str_Games,
     homeTeam |-> <<>>, homeCode |-> <<>>, awayTeam |-> <<>>, awayCode |-> <<>>,
     betUnitSize |-> 1, testMode |-> TRUE]

\* { ...base, ...over }
Spread(base, over) ==
    [k \in DOMAIN base \cup DOMAIN over |-> IF k \in DOMAIN over THEN over[k] ELSE base[k]]

\* partial.k ?? cfg.k
Or(partial, cfg, k) == IF k \in DOMAIN partial THEN partial[k] ELSE cfg[k]

updateKalshiConfig_AddsUnits(partial, cfg) ==
    Spread(Spread(cfg, partial),
        [moneylineEnabled |-> Or(partial, cfg, "moneylineEnabled"),
         spreadEnabled |-> Or(partial, cfg, "spreadEnabled"),
         betUnitSize |-> IF "betUnitSize" \in DOMAIN partial
                         THEN cfg.betUnitSize + normalizeUnitSize(partial.betUnitSize)
                         ELSE cfg.betUnitSize,
         sport |-> trim(Or(partial, cfg, "sport")),
         competition |-> trim(Or(partial, cfg, "competition")),
         scope |-> trim(Or(partial, cfg, "scope")),
         homeTeam |-> trim(Or(partial, cfg, "homeTeam")),
         awayTeam |-> trim(Or(partial, cfg, "awayTeam")),
         homeCode |-> sanitizeToken(Or(partial, cfg, "homeCode")),
         awayCode |-> sanitizeToken(Or(partial, cfg, "awayCode")),
         testMode |-> Or(partial, cfg, "testMode")])

updateKalshiConfig(partial, cfg) ==
    Spread(Spread(cfg, partial),
        [moneylineEnabled |-> Or(partial, cfg, "moneylineEnabled"),
         spreadEnabled |-> Or(partial, cfg, "spreadEnabled"),
         betUnitSize |-> normalizeUnitSize(IF "betUnitSize" \in DOMAIN partial
                                           THEN partial.betUnitSize
                                           ELSE Num(cfg.betUnitSize)),
         sport |-> trim(Or(partial, cfg, "sport")),
         competition |-> trim(Or(partial, cfg, "competition")),
         scope |-> trim(Or(partial, cfg, "scope")),
         homeTeam |-> trim(Or(partial, cfg, "homeTeam")),
         awayTeam |-> trim(Or(partial, cfg, "awayTeam")),
         homeCode |-> sanitizeToken(Or(partial, cfg, "homeCode")),
         awayCode |-> sanitizeToken(Or(partial, cfg, "awayCode")),
         testMode |-> Or(partial, cfg, "testMode")])

\* The persisted file parsed; a missing or corrupt file gives the defaults.
NoFile == [missing |-> TRUE]

loadConfigFromDisk(file) ==
    IF file = NoFile THEN defaultConfig
    ELSE Spread(Spread(defaultConfig, file),
                [betUnitSize |-> normalizeUnitSize(IF "betUnitSize" \in DOMAIN file
                                                   THEN file.betUnitSize
                                                   ELSE Num(defaultConfig.betUnitSize))])

LogCap == 100

\* push, then splice(0, length - 100)
pushCapped_DropsNewest(log, e) ==
    LET l == Append(log, e)
    IN IF Len(l) > LogCap THEN SubSeq(l, 1, LogCap) ELSE l

pushCapped(log, e) ==
    LET l == Append(log, e)
    IN IF Len(l) > LogCap THEN SubSeq(l, Len(l) - LogCap + 1, Len(l)) ELSE l

RECURSIVE pushAll(_, _)
pushAll(log, es) == IF es = <<>> THEN log ELSE pushAll(pushCapped(log, Head(es)), Tail(es))

\* ---------------------------------------------- the trading pipeline
\* One press's run of handleKalshiTrigger.  test, live and fx collect what the
\* current turn appends to the two logs and the requests it starts.
maxPages == 10

newTask(p, side, cfg) ==
    [press |-> p, side |-> side, cfg |-> cfg, kind |-> "none", pc |-> "run",
     page |-> 0, all |-> <<>>, ticker |-> <<>>, price |-> {}, status |-> 0,
     results |-> <<>>, outcome |-> [state |-> "pending"], sent |-> <<>>,
     test |-> <<>>, live |-> <<>>, fx |-> <<>>]

NoTask ==
    [pc |-> "none", outcome |-> [state |-> "none"], results |-> <<>>, sent |-> <<>>,
     test |-> <<>>, live |-> <<>>, fx |-> <<>>]

\* Error messages are tuples of the fragments they are concatenated from.
statusText(status) ==
    CASE status = 200 -> "200" [] status = 401 -> "401" [] status = 404 -> "404"
      [] status = 500 -> "500"

recordTestEvent(t, e) == [t EXCEPT !.test = Append(@, e)]

recordLiveEvent(t, e) == [t EXCEPT !.live = Append(@, e)]

\* The promise of handleKalshiTrigger settles; the locals of the run are
\* dropped, the results of the kinds that returned are kept for inspection.
settle(t, outcome) ==
    [NoTask EXCEPT !.pc = "done", !.outcome = outcome, !.results = t.results, !.sent = t.sent,
                   !.test = t.test, !.live = t.live, !.fx = t.fx]

fulfilled(v) == [state |-> "fulfilled", value |-> v]
rejected(msg) == [state |-> "rejected", reason |-> msg]

\* kalshi.ts 132-136
finish_AnyOk(t) ==
    IF Len(t.results) = 0
    THEN settle(t, fulfilled([ok |-> TRUE, skippedReason |-> "no-modules-enabled"]))
    ELSE IF \E i \in 1..Len(t.results) : t.results[i].result.ok
    THEN settle(t, fulfilled([ok |-> TRUE]))
    ELSE settle(t, fulfilled([ok |-> FALSE, error |-> <<"one-or-more-orders-failed">>]))

finish(t) ==
    IF Len(t.results) = 0
    THEN settle(t, fulfilled([ok |-> TRUE, skippedReason |-> "no-modules-enabled"]))
    ELSE IF \A i \in 1..Len(t.results) : t.results[i].result.ok
    THEN settle(t, fulfilled([ok |-> TRUE]))
    ELSE settle(t, fulfilled([ok |-> FALSE, error |-> <<"one-or-more-orders-failed">>]))

metadataMissing(cfg) ==
    \/ trim(cfg.sport) = <<>>
    \/ trim(cfg.competition) = <<>>
    \/ trim(cfg.scope) = <<>>
    \/ sanitizeToken(cfg.homeCode) = <<>>
    \/ sanitizeToken(cfg.awayCode) = <<>>

credentialsMissing(env) == ~env.accessKey \/ ~env.privateKey

\* kalshi.ts 314 and 482: in test mode the order is logged instead of sent
skipsOrder_Never(cfg) == FALSE

skipsOrder(cfg) == cfg.testMode

orderBody_Rereads(ticker, cfg) ==
    [ticker |-> ticker, side |-> "yes", action |-> "buy", count |-> runtimeConfig.betUnitSize,
     type |-> "market"]

orderBody(ticker, cfg) ==
    [ticker |-> ticker, side |-> "yes", action |-> "buy", count |-> cfg.betUnitSize,
     type |-> "market"]

\* placeSpread returns r: it is the last kind, handleKalshiTrigger finishes.
\* Each result is kept with the kind that returned it.
spReturns(t, r) == finish([t EXCEPT !.results = Append(@, [kind |-> "spread", result |-> r])])

\* kalshi.ts 520-533: the catch of placeSpread
spThrows(t, msg) ==
    LET t1 == recordLiveEvent(t, [side |-> t.side, kind |-> "spread", ticker |-> t.ticker,
                                  count |-> t.cfg.betUnitSize, error |-> msg])
        t2 == IF t.cfg.testMode
              THEN recordTestEvent(t1, [ticker |-> IF t.ticker = <<>> THEN <<"unknown">> ELSE t.ticker,
                                        side |-> t.side, count |-> t.cfg.betUnitSize,
                                        body |-> [note |-> "spread error", error |-> msg]])
              ELSE t1
    IN spReturns(t2, [ok |-> FALSE, error |-> msg])

\* placeMoneyline awaits fetchOpenMarkets outside any try: the error rejects
\* placeMoneyline and with it handleKalshiTrigger.
mlMarketsThrows(t, msg) == settle(t, rejected(msg))

marketsThrows(t, msg) ==
    IF t.kind = "moneyline" THEN mlMarketsThrows(t, msg) ELSE spThrows(t, msg)

\* signedFetch up to its await of fetch(): signing with an empty PRIVATE_KEY
\* throws; otherwise the request is started.
signedFetchStarts(env) == env.privateKey

\* kalshi.ts 141-144: the string that is signed (its timestamp left out); a
\* local of signedFetch, returned to no caller.
signaturePayload(method, path, body) ==
    <<method, path, IF method \in {"GET", "HEAD"} THEN <<>> ELSE <<body>> >>

\* -- signedFetch, the signing step (kalshi.ts 139-160) ----------------------
\* new URL(pathname, API_BASE): what precedes the first "?" is url.pathname,
\* the rest is url.search, which is empty when nothing follows the "?".
firstIndexOf(str, ch) ==
    IF \E i \in 1..Len(str) : str[i] = ch
    THEN CHOOSE i \in 1..Len(str) : str[i] = ch /\ \A j \in 1..(i - 1) : str[j] # ch
    ELSE 0

URL(pathname) ==
    LET q == firstIndexOf(pathname, "?")
    IN IF q = 0 THEN [pathname |-> pathname, search |-> <<>>]
       ELSE [pathname |-> SubSeq(pathname, 1, q - 1),
             search |-> IF q = Len(pathname) THEN <<>>
                        ELSE SubSeq(pathname, q, Len(pathname))]

isBodyAllowed_Always(method) == TRUE

isBodyAllowed(method) ==
    toUpperCase(method) # <<"G", "E", "T">> /\ toUpperCase(method) # <<"H", "E", "A", "D">>

\* JSON.stringify of an order body, as the sequence of its tokens
JSONstringify(body) ==
    <<"{", "ticker", ":">> \o body.ticker \o <<",", "count", ":", body.count, "}">>

\* body of '' is falsy and serializes to ''
serializedBody(method, body) ==
    IF isBodyAllowed(method) /\ body # <<>> THEN JSONstringify(body) ELSE <<>>

signaturePayloadAt_FirstTimestamp(timestamp, method, url, serialized) ==
    <<"1", "7">> \o toUpperCase(method) \o url.pathname \o url.search \o serialized

signaturePayloadAt(timestamp, method, url, serialized) ==
    timestamp \o toUpperCase(method) \o url.pathname \o url.search \o serialized

\* 146-153: RSA-SHA256 with RSA_PKCS1_PSS_PADDING and saltLength
\* RSA_PSS_SALTLEN_DIGEST.  The encoded message that the key is applied to is
\* built from the digest of the payload and a salt that the library draws
\* anew for every signature.
sign_Deterministic(payload, salt) == [mHash |-> payload, salt |-> 0]

sign(payload, salt) == [mHash |-> payload, salt |-> salt]

\* what the holder of the public key checks: the signature is one of the
\* signatures of this payload
verify(signature, payload) == signature.mHash = payload

\* signedFetch up to the headers: the request it is about to send
signedRequest(pathname, method, body, now, salt) ==
    LET url == URL(pathname)
        serialized == serializedBody(method, body)
        payload == signaturePayloadAt(now, method, url, serialized)
    IN [op |-> "signed", method |-> method, url |-> url, payload |-> payload,
        signature |-> sign(payload, salt), timestamp |-> now, body |-> serialized]

request(t, method, path, body) ==
    [op |-> "fetch", press |-> t.press, kind |-> t.kind, method |-> method,
     path |-> path, body |-> body]

\* fetchOpenMarkets, one pass of the loop up to the await of signedFetch
fetchPage(t, env) ==
    LET t1 == [t EXCEPT !.page = @ + 1]
    IN IF signedFetchStarts(env)
       THEN [t1 EXCEPT !.pc = "markets_fetch",
                       !.fx = Append(@, request(t1, "GET", "/markets", <<>>)),
                       !.sent = Append(@, request(t1, "GET", "/markets", <<>>))]
       ELSE marketsThrows(t1, <<"sign-failed">>)

\* -- spread ---------------------------------------------------------------
coerceNum(v) == v

\* Math.round((bid + ask) / 2) rounds halves up.
pickPrice(market) ==
    LET bid == coerceNum(market.yes_bid)
        ask == coerceNum(market.yes_ask)
        last == coerceNum(market.last_price)
    IN IF bid # {} /\ ask # {}
       THEN {((CHOOSE b \in bid : TRUE) + (CHOOSE a \in ask : TRUE) + 1) \div 2}
       ELSE IF bid # {} THEN bid
       ELSE IF ask # {} THEN ask
       ELSE IF last # {} THEN last
       ELSE {}

Abs(x) == IF x < 0 THEN -x ELSE x

closestTo50_First(best, rest) == best

\* reduce((best, cur) => |cur - 50| < |best - 50| ? cur : best)
RECURSIVE closestTo50(_, _)
closestTo50(best, rest) ==
    IF rest = <<>> THEN best
    ELSE closestTo50(IF Abs(Head(rest).price - 50) < Abs(best.price - 50)
                     THEN Head(rest) ELSE best, Tail(rest))

RECURSIVE scoreAll(_)
scoreAll(ms) ==
    IF ms = <<>> THEN <<>>
    ELSE LET p == pickPrice(Head(ms))
         IN (IF Head(ms).ticker # <<>> /\ p # {}
             THEN <<[ticker |-> Head(ms).ticker, price |-> CHOOSE x \in p : TRUE]>>
             ELSE <<>>) \o scoreAll(Tail(ms))

RECURSIVE filterMarkets_AnySide(_, _, _, _, _)
filterMarkets_AnySide(ms, homeCode, awayCode, family, sideCode) ==
    IF ms = <<>> THEN <<>>
    ELSE LET segments == normalizeSegments(Head(ms).ticker)
             keep == /\ hasTeamCodes(Head(ms).ticker, homeCode, awayCode)
                     /\ (IF family = "ML" THEN isMoneyline(segments) ELSE isSpread(segments))
         IN (IF keep THEN <<Head(ms)>> ELSE <<>>)
            \o filterMarkets_AnySide(Tail(ms), homeCode, awayCode, family, sideCode)

RECURSIVE filterMarkets(_, _, _, _, _)
filterMarkets(ms, homeCode, awayCode, family, sideCode) ==
    IF ms = <<>> THEN <<>>
    ELSE LET segments == normalizeSegments(Head(ms).ticker)
             keep == /\ hasTeamCodes(Head(ms).ticker, homeCode, awayCode)
                     /\ (IF family = "ML" THEN isMoneyline(segments) ELSE isSpread(segments))
                     /\ extractSide(segments) = sideCode
         IN (IF keep THEN <<Head(ms)>> ELSE <<>>)
            \o filterMarkets(Tail(ms), homeCode, awayCode, family, sideCode)

inBand(scored) ==
    LET idx == {i \in 1..Len(scored) : scored[i].price >= 40 /\ scored[i].price <= 60}
    IN [j \in 1..Cardinality(idx) |->
          scored[CHOOSE i \in idx : Cardinality({k \in idx : k < i}) = j - 1]]

pickSpread(scored) ==
    LET band == inBand(scored)
        pool == IF Len(band) > 0 THEN band ELSE scored
    IN closestTo50(Head(pool), Tail(pool))

\* kalshi.ts 423-491: placeSpread once the listing is in
spResolve(t, env) ==
    LET cfg == t.cfg
        homeCode == sanitizeToken(cfg.homeCode)
        awayCode == sanitizeToken(cfg.awayCode)
        label == trim(cfg.sport) \o <<".">> \o trim(cfg.competition) \o <<".">> \o trim(cfg.scope)
        candidates == filterMarkets(t.all, homeCode, awayCode, "SP", sideCodeOf(t.side))
        scored == scoreAll(candidates)
    IN IF Len(t.all) = 0 THEN
          LET t1 == IF cfg.testMode
                    THEN recordTestEvent(t, [ticker |-> label, side |-> t.side,
                                             count |-> cfg.betUnitSize,
                                             body |-> [note |-> "spread skipped: no markets found"]])
                    ELSE t
              t2 == recordLiveEvent(t1, [side |-> t.side, kind |-> "spread", ticker |-> Null,
                                         count |-> cfg.betUnitSize, note |-> "no-markets"])
          IN spReturns(t2, [ok |-> TRUE, skippedReason |-> "no-markets"])
       ELSE IF Len(scored) = 0 THEN
          LET t1 == IF cfg.testMode
                    THEN recordTestEvent(t, [ticker |-> label, side |-> t.side,
                                             count |-> cfg.betUnitSize,
                                             body |-> [note |-> "spread skipped: no spreads found"]])
                    ELSE t
              t2 == recordLiveEvent(t1, [side |-> t.side, kind |-> "spread", ticker |-> Null,
                                         count |-> cfg.betUnitSize, note |-> "no-spreads"])
          IN spReturns(t2, [ok |-> TRUE, skippedReason |-> "no-spreads"])
       ELSE
          LET pick == pickSpread(scored)
              t1 == [t EXCEPT !.ticker = pick.ticker, !.price = {pick.price}]
              body == orderBody(pick.ticker, cfg)
          IN IF skipsOrder(cfg)
             THEN spReturns(recordTestEvent(t1, [ticker |-> pick.ticker, side |-> t.side,
                                                 count |-> cfg.betUnitSize,
                                                 body |-> Spread(body, [observed_price |-> pick.price])]),
                            [ok |-> TRUE, skippedReason |-> "test-mode"])
             ELSE IF signedFetchStarts(env)
             THEN [t1 EXCEPT !.pc = "order_fetch",
                             !.fx = Append(@, request(t1, "POST", "/portfolio/orders", body)),
                             !.sent = Append(@, request(t1, "POST", "/portfolio/orders", body))]
             ELSE spThrows(t1, <<"sign-failed">>)

\* kalshi.ts 352-401: placeSpread up to its first await
spStart(t0, env) ==
    LET t == [t0 EXCEPT !.kind = "spread", !.page = 0, !.all = <<>>, !.ticker = Null,
                        !.price = {}, !.status = 0]
        cfg == t.cfg
        homeCode == sanitizeToken(cfg.homeCode)
        awayCode == sanitizeToken(cfg.awayCode)
    IN IF metadataMissing(cfg) THEN
          spReturns(IF cfg.testMode
                    THEN recordTestEvent(t, [ticker |-> <<"unknown">>, side |-> t.side,
                                             count |-> cfg.betUnitSize,
                                             body |-> [note |-> "spread skipped: missing matchup metadata"]])
                    ELSE t,
                    [ok |-> TRUE, skippedReason |-> "missing-event-ticker"])
       ELSE IF ~cfg.testMode /\ credentialsMissing(env) THEN
          spReturns(t, [ok |-> FALSE, skippedReason |-> "missing-credentials",
                        error |-> <<"Missing KALSHI_ACCESS_KEY or KALSHI_PRIVATE_KEY">>])
       ELSE IF cfg.testMode /\ credentialsMissing(env) THEN
          spReturns(recordTestEvent(t, [ticker |-> trim(cfg.sport) \o <<".">> \o awayCode \o <<".">>
                                                   \o homeCode \o <<".", "S", "P", ".">>
                                                   \o sideCodeOf(t.side),
                                        side |-> t.side, count |-> cfg.betUnitSize,
                                        body |-> [note |-> "test-mode no credentials; markets not fetched"]]),
                    [ok |-> TRUE, skippedReason |-> "test-mode-no-creds"])
       ELSE fetchPage(t, env)

\* kalshi.ts 124-130: placeMoneyline returned r
mlReturns(t, r, env) ==
    LET t1 == [t EXCEPT !.results = Append(@, [kind |-> "moneyline", result |-> r])]
    IN IF t.cfg.spreadEnabled THEN spStart(t1, env) ELSE finish(t1)

\* a.ticker.localeCompare(b.ticker), the collation of the default locale
\* (root/English rules, the characters of a ticker): strings are compared by
\* their primary weights first (punctuation, then digits, then letters, a
\* letter and its capital weighing the same); strings equal at that level are
\* told apart by case, the lower-case letter first.
CollationOrder ==
    <<"_", "-", ".", "0", "1", "2", "3", "4", "5", "6", "7", "8", "9",
      "A", "B", "C", "D", "E", "F", "G", "H", "I", "J", "K", "L", "M", "N", "O", "P",
      "Q", "R", "S", "T", "U", "V", "W", "X", "Y", "Z">>

rank(ch) == CHOOSE i \in 1..Len(CollationOrder) : CollationOrder[i] = toUpperChar(ch)

RECURSIVE comparePrimary(_, _)
comparePrimary(a, b) ==
    IF a = <<>> /\ b = <<>> THEN 0
    ELSE IF a = <<>> THEN -1
    ELSE IF b = <<>> THEN 1
    ELSE IF rank(Head(a)) < rank(Head(b)) THEN -1
    ELSE IF rank(Head(a)) > rank(Head(b)) THEN 1
    ELSE comparePrimary(Tail(a), Tail(b))

\* for strings of equal primary weights: the first place where the case differs
RECURSIVE compareCase(_, _)
compareCase(a, b) ==
    IF a = <<>> THEN 0
    ELSE IF Head(a) = Head(b) THEN compareCase(Tail(a), Tail(b))
    ELSE IF toUpperChar(Head(a)) = Head(b) THEN -1
    ELSE 1

localeCompare(a, b) ==
    IF comparePrimary(a, b) # 0 THEN comparePrimary(a, b) ELSE compareCase(a, b)

\* sort by ticker and take the first: the first least element of the list.
RECURSIVE firstSorted(_, _)
firstSorted(best, rest) ==
    IF rest = <<>> THEN best
    ELSE firstSorted(IF localeCompare(Head(rest).ticker, best.ticker) < 0
                     THEN Head(rest) ELSE best, Tail(rest))

\* kalshi.ts 268-326: placeMoneyline once the listing is in
mlResolve(t, env) ==
    LET cfg == t.cfg
        homeCode == sanitizeToken(cfg.homeCode)
        awayCode == sanitizeToken(cfg.awayCode)
        mlCandidates == filterMarkets(t.all, homeCode, awayCode, "ML", sideCodeOf(t.side))
    IN IF Len(t.all) = 0 THEN
          mlReturns(recordLiveEvent(t, [side |-> t.side, kind |-> "moneyline", ticker |-> Null,
                                        count |-> cfg.betUnitSize, note |-> "no-markets"]),
                    [ok |-> TRUE, skippedReason |-> "no-markets"], env)
       ELSE IF Len(mlCandidates) = 0 \/ firstSorted(Head(mlCandidates), Tail(mlCandidates)).ticker = <<>> THEN
          mlReturns(recordLiveEvent(t, [side |-> t.side, kind |-> "moneyline", ticker |-> Null,
                                        count |-> cfg.betUnitSize, note |-> "no-moneyline-market"]),
                    [ok |-> TRUE, skippedReason |-> "no-moneyline"], env)
       ELSE
          LET ticker == firstSorted(Head(mlCandidates), Tail(mlCandidates)).ticker
              t1 == [t EXCEPT !.ticker = ticker]
              body == orderBody(ticker, cfg)
          IN IF skipsOrder(cfg)
             THEN mlReturns(recordTestEvent(t1, [ticker |-> ticker, side |-> t.side,
                                                 count |-> cfg.betUnitSize, body |-> body]),
                            [ok |-> TRUE, skippedReason |-> "test-mode"], env)
             ELSE IF credentialsMissing(env)
             THEN mlReturns(t1, [ok |-> FALSE, skippedReason |-> "missing-credentials",
                                 error |-> <<"Missing KALSHI_ACCESS_KEY or KALSHI_PRIVATE_KEY">>], env)
             ELSE [t1 EXCEPT !.pc = "order_fetch",
                             !.fx = Append(@, request(t1, "POST", "/portfolio/orders", body)),
                             !.sent = Append(@, request(t1, "POST", "/portfolio/orders", body))]

\* fetchOpenMarkets returned the listing collected so far
marketsDone(t, env) ==
    IF t.kind = "moneyline" THEN mlResolve(t, env) ELSE spResolve(t, env)

\* kalshi.ts 253-267: placeMoneyline up to its first await
mlStart_NoMetadataCheck(t0, env) == fetchPage([t0 EXCEPT !.kind = "moneyline"], env)

mlStart(t0, env) ==
    LET t == [t0 EXCEPT !.kind = "moneyline"]
    IN IF metadataMissing(t.cfg)
       THEN mlReturns(t, [ok |-> TRUE, skippedReason |-> "missing-ticker"], env)
       ELSE fetchPage(t, env)

\* kalshi.ts 112-130: handleKalshiTrigger up to its first await
handleKalshiTrigger_CancelAsAway(p, side, cfg, env) ==
    LET t == newTask(p, side, cfg)
    IN IF ~cfg.enabled
       THEN settle(t, fulfilled([ok |-> TRUE, skippedReason |-> "module-disabled"]))
       ELSE IF cfg.moneylineEnabled THEN mlStart(t, env)
       ELSE IF cfg.spreadEnabled THEN spStart(t, env)
       ELSE finish(t)

handleKalshiTrigger_AlwaysEnabled(p, side, cfg, env) ==
    LET t == newTask(p, side, cfg)
    IN IF side = "cancel"
       THEN settle(t, fulfilled([ok |-> TRUE, skippedReason |-> "cancel-action"]))
       ELSE IF cfg.moneylineEnabled THEN mlStart(t, env)
       ELSE IF cfg.spreadEnabled THEN spStart(t, env)
       ELSE finish(t)

handleKalshiTrigger(p, side, cfg, env) ==
    LET t == newTask(p, side, cfg)
    IN IF side = "cancel"
       THEN settle(t, fulfilled([ok |-> TRUE, skippedReason |-> "cancel-action"]))
       ELSE IF ~cfg.enabled
       THEN settle(t, fulfilled([ok |-> TRUE, skippedReason |-> "module-disabled"]))
       ELSE IF cfg.moneylineEnabled THEN mlStart(t, env)
       ELSE IF cfg.spreadEnabled THEN spStart(t, env)
       ELSE finish(t)

\* What the awaited fetch, res.json() or response.text() of a run delivers.
isOk(status) == status >= 200 /\ status <= 299

\* kalshi.ts 563-572 and 326-344, 493-519: the awaited signedFetch resolved
fetchResolved(t, status, env) ==
    IF t.pc = "markets_fetch" THEN
        IF isOk(status) THEN [t EXCEPT !.pc = "markets_json"]
        ELSE IF status = 404 THEN marketsDone(t, env)
        ELSE [t EXCEPT !.pc = "markets_text", !.status = status]
    ELSE IF ~isOk(status) THEN [t EXCEPT !.pc = "order_text", !.status = status]
    ELSE LET ev == [side |-> t.side, kind |-> t.kind, ticker |-> t.ticker,
                    count |-> t.cfg.betUnitSize, status |-> status]
         IN IF t.kind = "moneyline"
            THEN mlReturns(recordLiveEvent(t, ev), [ok |-> TRUE], env)
            ELSE spReturns(recordLiveEvent(t, [ev EXCEPT !.kind = "spread"]), [ok |-> TRUE])

\* kalshi.ts 174-178, 585-590, 345-349: the awaited signedFetch rejected
fetchRejected_Retry(t, err, env) ==
    IF t.pc = "markets_fetch" THEN
        marketsThrows(t, IF err = <<"fetch-timeout">> THEN <<"markets-fetch-timeout">> ELSE err)
    ELSE [t EXCEPT !.fx = Append(@, request(t, "POST", "/portfolio/orders", orderBody(t.ticker, t.cfg))),
                   !.sent = Append(@, request(t, "POST", "/portfolio/orders", orderBody(t.ticker, t.cfg)))]

fetchRejected(t, err, env) ==
    IF t.pc = "markets_fetch" THEN
        marketsThrows(t, IF err = <<"fetch-timeout">> THEN <<"markets-fetch-timeout">> ELSE err)
    ELSE IF t.kind = "moneyline" THEN
        mlReturns(recordLiveEvent(t, [side |-> t.side, kind |-> "moneyline", ticker |-> t.ticker,
                                      count |-> t.cfg.betUnitSize, error |-> err]),
                  [ok |-> FALSE, error |-> err], env)
    ELSE spThrows(t, err)

\* kalshi.ts 573-584: res.json() delivered a page of the listing
jsonResolved_NoPageCap(t, page, env) ==
    LET t1 == [t EXCEPT !.all = @ \o page.markets]
    IN IF page.cursor THEN fetchPage(t1, env)
       ELSE marketsDone(t1, env)

jsonResolved(t, page, env) ==
    LET t1 == [t EXCEPT !.all = @ \o page.markets]
    IN IF page.cursor /\ t1.page < maxPages THEN fetchPage(t1, env)
       ELSE marketsDone(t1, env)

\* res.json() rejected: the body is not JSON
jsonRejected(t) == marketsThrows(t, <<"invalid-json">>)

emptyBodyText(rawText) == IF trim(rawText) = <<>> THEN <<"(empty body)">> ELSE rawText

requestFailed(status) == <<"Kalshi request failed (", statusText(status), ")">>

\* safeReadText delivered the body of a non-2xx response
textResolved(t, rawText, env) ==
    IF t.pc = "markets_text" THEN
        marketsThrows(t, <<"markets-fetch-failed:", statusText(t.status)>>)
    ELSE
        LET ev == [side |-> t.side, kind |-> t.kind, ticker |-> t.ticker,
                   count |-> t.cfg.betUnitSize, status |-> t.status,
                   responseBody |-> emptyBodyText(rawText)]
            r == [ok |-> FALSE, error |-> requestFailed(t.status)]
        IN IF t.kind = "moneyline"
           THEN mlReturns(recordLiveEvent(t, ev), r, env)
           ELSE spReturns(recordLiveEvent(
                    IF t.cfg.testMode
                    THEN recordTestEvent(t, [ticker |-> t.ticker, side |-> t.side,
                                             count |-> t.cfg.betUnitSize,
                                             body |-> [error |-> <<"rejected ", statusText(t.status)>>,
                                                       response |-> emptyBodyText(rawText)]])
                    ELSE t, ev), r)

\* The end of a turn: the run is parked with its per-turn collections emptied.
park(t) == [t EXCEPT !.test = <<>>, !.live = <<>>, !.fx = <<>>]

\* ------------------------------------------------------------ the system
\* The environments and persisted files the process may start with.
Envs == [accessKey : BOOLEAN, privateKey : BOOLEAN]

Code_DEN == <<"D", "E", "N">>
Code_LAL == <<"L", "A", "L">>

FileLive ==
    [enabled |-> TRUE, homeCode |-> Code_DEN, awayCode |-> Code_LAL, testMode |-> FALSE]

FileTest ==
    [enabled |-> TRUE, spreadEnabled |-> TRUE, homeCode |-> Code_DEN, awayCode |-> Code_LAL,
     betUnitSize |-> Num(3)]

InitRelay ==
    /\ clients = <<>>
    /\ readyState = [c \in Conns |-> "NONE"]
    /\ role = [c \in Conns |-> Unset]
    /\ isAlive = [c \in Conns |-> FALSE]
    /\ nextId = 1
    /\ received = [c \in Conns |-> <<>>]
    /\ nPress = 0
    /\ lastEvent = [kind |-> "init"]
    /\ stepLog = <<>>

InitTrade(files, envs) ==
    /\ creds \in envs
    /\ configFile \in files
    /\ runtimeConfig = loadConfigFromDisk(configFile)
    /\ tasks = [p \in Presses |-> NoTask]
    /\ testEventLog = <<>>
    /\ liveEventLog = <<>>


\* wss.on('connection')
Connect ==
    /\ nextId \in Conns
    /\ LET c == nextId
           rs == [readyState EXCEPT ![c] = "OPEN"]
       IN /\ clients' = Append(clients, c)
          /\ readyState' = rs
          /\ isAlive' = [isAlive EXCEPT ![c] = TRUE]
          /\ nextId' = nextId + 1
          /\ stepLog' = send(c, [type |-> "welcome", id |-> c], rs)
          /\ lastEvent' = [kind |-> "connection", conn |-> c]
    /\ UNCHANGED <<role, received, nPress>>
    /\ UNCHANGED tradeVars

\* The reply of ws.on('message') to a frame that fails JSON.parse or the schema.
invalidReply_Silent(c, rs) == <<>>

invalidReply(c, rs) == send(c, [type |-> "error", message |-> "invalid-payload"], rs)

\* server.ts 349-352
pingReply(c, rs) == send(c, [type |-> "pong"], rs)

\* server.ts 354-364: the role is assigned first, the counts read afterwards.
registerRole_FirstWins(c, r, rl) == [rl EXCEPT ![c] = IF @ = Unset THEN r ELSE @]

registerRole(c, r, rl) == [rl EXCEPT ![c] = r]

registerReply(c, cl, rl, rs) ==
    send(c, [type |-> "registered", role |-> rl[c],
             displayCount |-> countByRole("display", cl, rl),
             controlCount |-> countByRole("control", cl, rl)], rs)
    \o broadcastCounts(cl, rl, rs)

\* server.ts 366-369
roleMissing_Skipped(c, rl) == FALSE

roleMissing(c, rl) == rl[c] = Unset

roleMissingReply(c, rs) ==
    send(c, [type |-> "error", message |-> "role-not-registered"], rs)

\* server.ts 372-375
notAuthorized_OnlyUnset(c, rl) == rl[c] \notin Roles

notAuthorized(c, rl) == rl[c] # "control"

notAuthorizedReply(c, rs) ==
    send(c, [type |-> "error", message |-> "not-authorized"], rs)

\* server.ts 377-384: the flash to the displays, then the ack to the sender.
flashPayload(c, side, at) == [type |-> "flash", side |-> side, at |-> at, by |-> c]

relayTrigger_ToAll(c, side, at, cl, rl, rs) ==
    broadcast(flashPayload(c, side, at), AnyRole, cl, rl, rs)
    \o send(c, [type |-> "ack", at |-> at], rs)

relayTrigger(c, side, at, cl, rl, rs) ==
    broadcast(flashPayload(c, side, at), {"display"}, cl, rl, rs)
    \o send(c, [type |-> "ack", at |-> at], rs)

\* server.ts 386-390: the run started for a press, up to its first await
tradingStarts(side) == side # "cancel"

startTrading(p, side, cfg, e) ==
    IF tradingStarts(side) THEN handleKalshiTrigger(p, side, cfg, e) ELSE NoTask

\* server.ts 377-390: what the turn of a control trigger writes and starts
triggerLog_TradeFirst(relayed, t) == t.fx \o relayed

triggerLog(relayed, t) == relayed \o t.fx

\* server.ts 386-390: the press starts a run of its own; the handler holds no
\* reference to the runs in flight.
runsAfterPress_CancelAborts(ts, p, side, t) ==
    [q \in DOMAIN ts |->
        IF q = p THEN park(t)
        ELSE IF side = "cancel" /\ ts[q].pc \notin {"none", "done"}
        THEN settle(ts[q], rejected(<<"aborted">>))
        ELSE ts[q]]

runsAfterPress(ts, p, side, t) == [ts EXCEPT ![p] = park(t)]

\* ws.on('message'): frames are dispatched for sockets that are open.
OnMessage(c, raw) ==
    /\ readyState[c] = "OPEN"
    /\ LET parsed == inboundSchemaParse(raw)
       IN /\ lastEvent' = [kind |-> "message", conn |-> c, msg |-> parsed]
          /\ IF parsed = Invalid THEN
                /\ stepLog' = invalidReply(c, readyState)
                /\ UNCHANGED relayVars
                /\ UNCHANGED tradeVars
             ELSE IF parsed.type = "ping" THEN
                /\ stepLog' = pingReply(c, readyState)
                /\ UNCHANGED relayVars
                /\ UNCHANGED tradeVars
             ELSE IF parsed.type = "register" THEN
                /\ role' = registerRole(c, parsed.arg, role)
                /\ stepLog' = registerReply(c, clients, role', readyState)
                /\ UNCHANGED <<clients, readyState, isAlive, nextId, received, nPress>>
                /\ UNCHANGED tradeVars
             ELSE IF roleMissing(c, role) THEN
                /\ stepLog' = roleMissingReply(c, readyState)
                /\ UNCHANGED relayVars
                /\ UNCHANGED tradeVars
             ELSE IF notAuthorized(c, role) THEN
                /\ stepLog' = notAuthorizedReply(c, readyState)
                /\ UNCHANGED relayVars
                /\ UNCHANGED tradeVars
             ELSE
                /\ nPress < MaxPresses
                /\ nPress' = nPress + 1
                /\ LET t == startTrading(nPress', parsed.arg, runtimeConfig, creds)
                   IN /\ stepLog' = triggerLog(relayTrigger(c, parsed.arg, nPress', clients,
                                                            role, readyState), t)
                      /\ tasks' = runsAfterPress(tasks, nPress', parsed.arg, t)
                      /\ testEventLog' = pushAll(testEventLog, t.test)
                      /\ liveEventLog' = pushAll(liveEventLog, t.live)
                /\ received' = Deliver(received, stepLog')
                /\ UNCHANGED <<clients, readyState, role, isAlive, nextId>>
                /\ UNCHANGED <<creds, configFile, runtimeConfig>>

\* ws.on('pong')
OnPong(c) ==
    /\ readyState[c] \in {"OPEN", "CLOSING"}
    /\ isAlive' = IF c \in Range(clients) THEN [isAlive EXCEPT ![c] = TRUE] ELSE isAlive
    /\ stepLog' = <<>>
    /\ lastEvent' = [kind |-> "pong", conn |-> c]
    /\ UNCHANGED <<clients, readyState, role, nextId, received, nPress>>
    /\ UNCHANGED tradeVars

\* The transport leaves the open state (the peer's close frame or a socket
\* error); the 'close' event is emitted in a later turn.
TransportClosing(c) ==
    /\ readyState[c] = "OPEN"
    /\ readyState' = [readyState EXCEPT ![c] = "CLOSING"]
    /\ stepLog' = <<>>
    /\ lastEvent' = [kind |-> "closing", conn |-> c]
    /\ UNCHANGED <<clients, role, isAlive, nextId, received, nPress>>
    /\ UNCHANGED tradeVars

\* ws.on('close')
OnClose(c) ==
    /\ readyState[c] = "CLOSING"
    /\ readyState' = [readyState EXCEPT ![c] = "CLOSED"]
    /\ clients' = SeqFilter(clients, Conns \ {c})
    /\ stepLog' = IF role[c] # Unset
                  THEN broadcastCounts(clients', role, readyState')
                  ELSE <<>>
    /\ lastEvent' = [kind |-> "close", conn |-> c]
    /\ UNCHANGED <<role, isAlive, nextId, received, nPress>>
    /\ UNCHANGED tradeVars

\* The setInterval callback: stale records are terminated and deleted, the
\* others are marked not alive and pinged.
stale_Never(cl, al) == {}

stale_All(cl, al) == Range(cl)

stale(cl, al) == {c \in Range(cl) : ~al[c]}

RECURSIVE heartbeatLog(_, _)
heartbeatLog(cl, al) ==
    IF cl = <<>> THEN <<>>
    ELSE <<[op |-> (IF Head(cl) \in stale(cl, al) THEN "terminate" ELSE "ping"), to |-> Head(cl)]>>
         \o heartbeatLog(Tail(cl), al)

Heartbeat ==
    /\ clients # <<>>
    /\ LET dead == stale(clients, isAlive)
       IN /\ clients' = SeqFilter(clients, Conns \ dead)
          /\ readyState' = [c \in Conns |-> IF c \in dead THEN "CLOSING" ELSE readyState[c]]
          /\ isAlive' = [c \in Conns |-> IF c \in Range(clients) \ dead THEN FALSE ELSE isAlive[c]]
          /\ stepLog' = heartbeatLog(clients, isAlive)
          /\ lastEvent' = [kind |-> "heartbeat"]
    /\ UNCHANGED <<role, nextId, received, nPress>>
    /\ UNCHANGED tradeVars

\* ------------------------------------------------ the pipeline's I/O events
Pending(p) == tasks[p].pc \notin {"none", "done"}

Resume_ReportsOutcome(p, t, ev) ==
    /\ tasks' = [tasks EXCEPT ![p] = park(t)]
    /\ testEventLog' = pushAll(testEventLog, t.test)
    /\ liveEventLog' = pushAll(liveEventLog, t.live)
    /\ stepLog' = t.fx \o (IF t.pc = "done"
                            THEN broadcast([type |-> "error", message |-> "trade-settled"],
                                           {"control"}, clients, role, readyState)
                            ELSE <<>>)
    /\ lastEvent' = ev
    /\ UNCHANGED relayVars
    /\ UNCHANGED <<creds, configFile, runtimeConfig>>

\* A turn that resumes run p and leaves it as t.
Resume(p, t, ev) ==
    /\ tasks' = [tasks EXCEPT ![p] = park(t)]
    /\ testEventLog' = pushAll(testEventLog, t.test)
    /\ liveEventLog' = pushAll(liveEventLog, t.live)
    /\ stepLog' = t.fx
    /\ lastEvent' = ev
    /\ UNCHANGED relayVars
    /\ UNCHANGED <<creds, configFile, runtimeConfig>>

Statuses == {200, 401, 404, 500}

\* fetch() resolves with a response
FetchResolves(p, status) ==
    /\ tasks[p].pc \in {"markets_fetch", "order_fetch"}
    /\ Resume(p, fetchResolved(tasks[p], status, creds),
              [kind |-> "response", press |-> p])

FetchErrors == {<<"fetch failed">>, <<"fetch-timeout">>}

\* fetch() rejects: a network error, or the abort after FETCH_TIMEOUT_MS
FetchRejects(p, err) ==
    /\ tasks[p].pc \in {"markets_fetch", "order_fetch"}
    /\ Resume(p, fetchRejected(tasks[p], err, creds),
              [kind |-> "fetch-error", press |-> p])

\* The listing pages the API may answer with.
Mkt(ticker, bid, ask, last) ==
    [ticker |-> ticker, yes_bid |-> bid, yes_ask |-> ask, last_price |-> last]

Tk(family, side) == Code_LAL \o <<".">> \o Code_DEN \o <<".">> \o family \o <<".">> \o side

MaxCursorPages == 1

ListingPages ==
    {[markets |-> <<>>, cursor |-> FALSE],
     [markets |-> <<Mkt(Tk(<<"M", "L">>, SegH), {}, {}, {}),
                    Mkt(Tk(<<"M", "L">>, SegA), {}, {}, {}),
                    Mkt(Tk(<<"S", "P">>, SegH), {50}, {54}, {}),
                    Mkt(Tk(<<"S", "P", "2">>, SegH), {}, {}, {})>>, cursor |-> FALSE],
     [markets |-> <<Mkt(Tk(<<"S", "P">>, SegA), {38}, {}, {})>>, cursor |-> TRUE]}

\* Most specifications let the API continue a listing on MaxCursorPages pages.
FewPages(p, page) ==
    tasks[p].pc = "markets_json" /\ (page.cursor => tasks[p].page <= MaxCursorPages)

JsonResolves(p, page) ==
    /\ tasks[p].pc = "markets_json"
    /\ Resume(p, jsonResolved(tasks[p], page, creds),
              [kind |-> "json", press |-> p, page |-> page])

JsonRejects(p) ==
    /\ tasks[p].pc = "markets_json"
    /\ Resume(p, jsonRejected(tasks[p]), [kind |-> "json-error", press |-> p])

BodyTexts == {<<>>, <<"n", "o">>}

TextResolves(p, rawText) ==
    /\ tasks[p].pc \in {"markets_text", "order_text"}
    /\ Resume(p, textResolved(tasks[p], rawText, creds),
              [kind |-> "text", press |-> p])

\* server.ts 238-249: kalshiConfigPayload keeps the keys it declares and
\* refuses a betUnitSize that is not an integer >= 1.
PayloadKeys ==
    {"enabled", "moneylineEnabled", "spreadEnabled", "league", "homeTeam", "awayTeam",
     "homeCode", "awayCode", "betUnitSize", "testMode"}

kalshiConfigPayloadAccepts(body) ==
    "betUnitSize" \in DOMAIN body =>
        /\ body.betUnitSize.fin
        /\ body.betUnitSize.num % body.betUnitSize.den = 0
        /\ body.betUnitSize.num \div body.betUnitSize.den >= 1

kalshiConfigPayloadParse(body) == [k \in DOMAIN body \cap PayloadKeys |-> body[k]]

\* kalshi.ts 202-208: the write replaces the file with the configuration as
\* JSON (its number as the file holds numbers), or fails and is only logged
persistConfig(config, file, written) ==
    IF written THEN [config EXCEPT !.betUnitSize = Num(@)] ELSE file

\* POST /config/kalshi: a refused body is answered 400 and changes nothing.
UpdateConfig(body, written) ==
    /\ IF kalshiConfigPayloadAccepts(body)
       THEN /\ runtimeConfig' = updateKalshiConfig(kalshiConfigPayloadParse(body), runtimeConfig)
            /\ configFile' = persistConfig(runtimeConfig', configFile, written)
            /\ stepLog' = <<[op |-> "reply", status |-> 200]>>
       ELSE /\ UNCHANGED <<runtimeConfig, configFile>>
            /\ stepLog' = <<[op |-> "reply", status |-> 400]>>
    /\ lastEvent' = [kind |-> "config", body |-> body, written |-> written]
    /\ UNCHANGED relayVars
    /\ UNCHANGED <<creds, tasks, testEventLog, liveEventLog>>

\* kalshi.ts 96-110: a read returns a reversed copy, a clear truncates.
reverse(log) == [i \in 1..Len(log) |-> log[Len(log) - i + 1]]

LogNames == {"test", "live"}

\* getTestEvents (GET /config/kalshi/test) and getLiveEvents
GetEvents(which) ==
    /\ stepLog' = <<[op |-> "reply", status |-> 200,
                     events |-> reverse(IF which = "test" THEN testEventLog ELSE liveEventLog)]>>
    /\ lastEvent' = [kind |-> "get", log |-> which]
    /\ UNCHANGED relayVars
    /\ UNCHANGED tradeVars

\* clearTestEvents (DELETE /config/kalshi/test) and clearLiveEvents
ClearEvents(which) ==
    /\ testEventLog' = IF which = "test" THEN <<>> ELSE testEventLog
    /\ liveEventLog' = IF which = "live" THEN <<>> ELSE liveEventLog
    /\ stepLog' = <<[op |-> "reply", status |-> 204]>>
    /\ lastEvent' = [kind |-> "clear", log |-> which]
    /\ UNCHANGED relayVars
    /\ UNCHANGED <<creds, configFile, runtimeConfig, tasks>>

\* ------------------------------------------------------- specifications
NoKeys == [accessKey |-> FALSE, privateKey |-> FALSE]
BothKeys == [accessKey |-> TRUE, privateKey |-> TRUE]

\* Spec: the relay with every connection event.  The process starts without
\* a configuration file, so the trading module is disabled.
Init == InitRelay /\ InitTrade({NoFile}, {NoKeys})

Next ==
    \/ Connect
    \/ \E c \in Conns, raw \in RawMessages : OnMessage(c, raw)
    \/ \E c \in Conns : TransportClosing(c)
    \/ \E c \in Conns : OnClose(c)

Spec == Init /\ [][Next]_vars

\* SpecTrading: presses and the trading pipeline.  It starts from the relay
\* state in which connection 1 has registered as control and connection 2 as
\* display, and a third connection (if any) has not registered yet.
InitPopulated ==
    /\ clients = [i \in 1..MaxConns |-> i]
    /\ readyState = [c \in Conns |-> "OPEN"]
    /\ role = [c \in Conns |-> IF c = 1 THEN "control" ELSE IF c = 2 THEN "display" ELSE Unset]
    /\ isAlive = [c \in Conns |-> TRUE]
    /\ nextId = MaxConns + 1
    /\ received = [c \in Conns |-> <<>>]
    /\ nPress = 0
    /\ lastEvent = [kind |-> "connection", conn |-> MaxConns]
    /\ stepLog = send(MaxConns, [type |-> "welcome", id |-> MaxConns], readyState)

Triggers == {[type |-> "trigger", arg |-> s] : s \in Sides}
Registers == {[type |-> "register", arg |-> r] : r \in Roles}

\* SpecHeartbeat: connections, registrations, pongs and heartbeat ticks.
NextHeartbeat ==
    \/ Connect
    \/ \E c \in Conns, raw \in Registers : OnMessage(c, raw)
    \/ \E c \in Conns : OnPong(c)
    \/ \E c \in Conns : TransportClosing(c)
    \/ \E c \in Conns : OnClose(c)
    \/ Heartbeat

SpecHeartbeat == Init /\ [][NextHeartbeat]_vars

\* SpecEviction: SpecHeartbeat with the scheduling of the 'close' event.
\* terminate() destroys the socket and the library emits 'close' for it in a
\* later turn of the event loop, as it does after a closing handshake: a
\* connection does not stay between closing and closed for ever.
SpecEviction == Init /\ [][NextHeartbeat]_vars /\ \A c \in Conns : WF_vars(OnClose(c))

\* SpecPress: two presses in flight against the whole pipeline, with the
\* persisted configuration that trades moneyline for real.
InitPress == InitPopulated /\ InitTrade({FileLive}, {BothKeys})

PressStatuses == {200, 500}
PressPages == {pg \in ListingPages : ~pg.cursor /\ Len(pg.markets) > 0}

NextPress ==
    \/ \E c \in Conns, raw \in Triggers : OnMessage(c, raw)
    \/ \E c \in Conns \ {1, 2}, raw \in Registers : OnMessage(c, raw)
    \/ \E p \in Presses, status \in PressStatuses : FetchResolves(p, status)
    \/ \E p \in Presses : FetchRejects(p, <<"fetch-timeout">>)
    \/ \E p \in Presses, page \in PressPages : JsonResolves(p, page)
    \/ \E p \in Presses : TextResolves(p, <<>>)

SpecPress == InitPress /\ [][NextPress]_vars

\* SpecTrading: one press at a time under every configuration.
MaxTradingPresses == 1

TradingFiles == {NoFile, FileLive, FileTest}
TradingPartials ==
    {[enabled |-> TRUE], [enabled |-> FALSE], [testMode |-> FALSE], [testMode |-> TRUE],
     [spreadEnabled |-> TRUE, moneylineEnabled |-> FALSE],
     [homeCode |-> <<" ", "d", "e", "n">>, awayCode |-> <<"l", "a", "l", "!">>,
      betUnitSize |-> Num(2)]}

InitTrading == InitPopulated /\ InitTrade(TradingFiles, Envs)

NextTrading ==
    \/ \E c \in Conns, raw \in Triggers : nPress < MaxTradingPresses /\ OnMessage(c, raw)
    \/ \E partial \in TradingPartials : UpdateConfig(partial, TRUE)
    \/ \E p \in Presses, status \in Statuses : FetchResolves(p, status)
    \/ \E p \in Presses, err \in FetchErrors : FetchRejects(p, err)
    \/ \E p \in Presses, page \in ListingPages : FewPages(p, page) /\ JsonResolves(p, page)
    \/ \E p \in Presses : JsonRejects(p)
    \/ \E p \in Presses, text \in BodyTexts : TextResolves(p, text)

SpecTrading == InitTrading /\ [][NextTrading]_vars

\* SpecKinds: one press under every combination of the kinds, test mode,
\* credentials and a home code that is or is not empty once sanitized, with
\* every answer of the API.  The file is read as it was written by hand:
\* loadConfigFromDisk does not sanitize it.
Code_Blank == <<" ", "!">>

KindFiles ==
    [enabled : {TRUE}, moneylineEnabled : BOOLEAN, spreadEnabled : BOOLEAN,
     testMode : BOOLEAN, homeCode : {Code_DEN, Code_Blank}, awayCode : {Code_LAL}]

InitKinds == InitPopulated /\ InitTrade(KindFiles, Envs)

NextKinds ==
    \/ \E c \in Conns, raw \in Triggers : nPress < MaxTradingPresses /\ OnMessage(c, raw)
    \/ \E p \in Presses, status \in Statuses : FetchResolves(p, status)
    \/ \E p \in Presses, err \in FetchErrors : FetchRejects(p, err)
    \/ \E p \in Presses, page \in ListingPages : FewPages(p, page) /\ JsonResolves(p, page)
    \/ \E p \in Presses : JsonRejects(p)
    \/ \E p \in Presses, text \in BodyTexts : TextResolves(p, text)

SpecKinds == InitKinds /\ [][NextKinds]_vars

\* SpecSettles: SpecKinds with the one thing the code schedules by itself.
\* signedFetch arms controller.abort() for FETCH_TIMEOUT_MS (171) and fetch
\* settles one way or the other, so a press waiting on fetch does not wait for
\* ever.  The timer is cleared as soon as fetch has settled (179-181): nothing
\* bounds res.json() or response.text(), so the steps that end a body read
\* are left to the API and get no fairness.
FetchSettles(p) ==
    \/ \E status \in Statuses : FetchResolves(p, status)
    \/ \E err \in FetchErrors : FetchRejects(p, err)

SpecSettles == InitKinds /\ [][NextKinds]_vars /\ \A p \in Presses : WF_vars(FetchSettles(p))

\* SpecOrders: two presses in flight with both kinds trading for real.
FileBoth ==
    [enabled |-> TRUE, spreadEnabled |-> TRUE, homeCode |-> Code_DEN, awayCode |-> Code_LAL,
     testMode |-> FALSE]

InitOrders == InitPopulated /\ InitTrade({FileBoth}, {BothKeys})

NextOrders ==
    \/ \E raw \in Triggers : OnMessage(1, raw)
    \/ \E p \in Presses, status \in PressStatuses : FetchResolves(p, status)
    \/ \E p \in Presses : FetchRejects(p, <<"fetch-timeout">>)
    \/ \E p \in Presses, page \in PressPages : JsonResolves(p, page)
    \/ \E p \in Presses : TextResolves(p, <<>>)

SpecOrders == InitOrders /\ [][NextOrders]_vars

\* SpecListing: a moneyline press in test mode against an API that continues
\* the listing on every page.
FileListing == [enabled |-> TRUE, homeCode |-> Code_DEN, awayCode |-> Code_LAL]

CursorPages ==
    {[markets |-> <<>>, cursor |-> TRUE],
     [markets |-> <<Mkt(Tk(<<"M", "L">>, SegH), {}, {}, {})>>, cursor |-> TRUE]}

InitListing == InitPopulated /\ InitTrade({FileListing}, {BothKeys})

NextListing ==
    \/ \E raw \in Triggers : nPress < MaxTradingPresses /\ OnMessage(1, raw)
    \/ \E p \in Presses : FetchResolves(p, 200)
    \/ \E p \in Presses, page \in CursorPages : JsonResolves(p, page)

SpecListing == InitListing /\ [][NextListing]_vars

\* SpecConfig: configuration updates, accepted and refused, written and not,
\* around one press; the process starts without a file or with one written by
\* hand, whose unit size and codes nothing has normalized.
Frac(n, d) == [fin |-> TRUE, num |-> n, den |-> d]
NaN == [fin |-> FALSE, num |-> 0, den |-> 1]

UnitSizes == {Num(0), Num(-2), Frac(7, 2), Frac(-1, 2), NaN, Num(3)}

Code_den == <<"d", "e", "n">>

ConfigFiles ==
    {NoFile}
    \cup {[enabled |-> TRUE, homeCode |-> Code_den, awayCode |-> Code_LAL, testMode |-> FALSE,
           betUnitSize |-> v] : v \in {Num(0), Frac(5, 2), NaN}}

BodyLive ==
    [enabled |-> TRUE, testMode |-> FALSE, betUnitSize |-> Num(3),
     homeCode |-> <<" ", "d", "e", "n">>, awayCode |-> <<"l", "a", "l", "!">>]

BodyLeague == [league |-> <<"n", "b", "a">>, testMode |-> TRUE]

ConfigBodies == {[betUnitSize |-> v] : v \in UnitSizes \ {Num(3)}} \cup {BodyLive, BodyLeague}

InitConfig == InitPopulated /\ InitTrade(ConfigFiles, {BothKeys})

NextConfig ==
    \/ \E raw \in Triggers : nPress < MaxTradingPresses /\ OnMessage(1, raw)
    \/ \E body \in ConfigBodies, written \in BOOLEAN : UpdateConfig(body, written)
    \/ \E p \in Presses : FetchResolves(p, 200)
    \/ \E p \in Presses, page \in PressPages : JsonResolves(p, page)

SpecConfig == InitConfig /\ [][NextConfig]_vars

\* SpecLogs: one press in test mode, reads and clears, starting after earlier
\* presses have left the logs empty, one short of full, or full.  The earlier
\* entries are those of presses made under unit sizes 1, 2, 3, ...: a spread
\* skipped for missing codes (test log), a moneyline that found no markets
\* (live log).
TestEntry(n) ==
    [ticker |-> <<"unknown">>, side |-> "home", count |-> n,
     body |-> [note |-> "spread skipped: missing matchup metadata"]]

LiveEntry(n) ==
    [side |-> "home", kind |-> "moneyline", ticker |-> Null, count |-> n, note |-> "no-markets"]

LogFills == {0, LogCap - 1, LogCap}

LogStatuses == {200, 404}

InitLogs ==
    /\ InitPopulated
    /\ creds = BothKeys
    /\ configFile = FileTest
    /\ runtimeConfig = loadConfigFromDisk(configFile)
    /\ tasks = [p \in Presses |-> NoTask]
    /\ testEventLog \in {[i \in 1..n |-> TestEntry(i)] : n \in LogFills}
    /\ liveEventLog \in {[i \in 1..n |-> LiveEntry(i)] : n \in LogFills}

NextLogs ==
    \/ \E raw \in Triggers : nPress < MaxTradingPresses /\ OnMessage(1, raw)
    \/ \E p \in Presses, status \in LogStatuses : FetchResolves(p, status)
    \/ \E p \in Presses, page \in PressPages : JsonResolves(p, page)
    \/ \E which \in LogNames : GetEvents(which)
    \/ \E which \in LogNames : ClearEvents(which)

SpecLogs == InitLogs /\ [][NextLogs]_vars

\* SpecResolve: two presses trading both kinds for real, each answered with
\* the same four markets in an order of the API's choosing.  Two moneyline and
\* two spread markets pass the filter of a home press; the spreads are priced
\* 48 and 52.
Tk2(family, side) == Code_DEN \o <<".">> \o Code_LAL \o <<".">> \o family \o <<".">> \o side

ResolveMarkets ==
    <<Mkt(Tk(<<"M", "L">>, SegH), {}, {}, {}), Mkt(Tk2(<<"M", "L">>, SegH), {}, {}, {}),
      Mkt(Tk(<<"S", "P">>, SegH), {48}, {}, {}), Mkt(Tk2(<<"S", "P">>, SegH), {52}, {}, {})>>

Orderings(list) ==
    LET n == Len(list)
        orders == {f \in [1..n -> 1..n] : \A i, j \in 1..n : f[i] = f[j] => i = j}
    IN {[i \in 1..n |-> list[f[i]]] : f \in orders}

ResolvePages == {[markets |-> ms, cursor |-> FALSE] : ms \in Orderings(ResolveMarkets)}

InitResolve == InitPopulated /\ InitTrade({FileBoth}, {BothKeys})

NextResolve ==
    \/ \E raw \in Triggers : OnMessage(1, raw)
    \/ \E p \in Presses : FetchResolves(p, 200)
    \/ \E p \in Presses, page \in ResolvePages : JsonResolves(p, page)

SpecResolve == InitResolve /\ [][NextResolve]_vars

\* SpecSign: signedFetch applied to every input of a small set, at a clock
\* reading and with a salt that the caller does not choose.
SignTimestamps == {<<"1", "7">>, <<"1", "8">>}
SignMethods == {<<"G", "E", "T">>, <<"g", "e", "t">>, <<"H", "E", "A", "D">>, <<"P", "O", "S", "T">>}
SignPaths == {<<"/markets">>, <<"/markets", "?", "status=open">>, <<"/markets", "?">>,
              <<"/portfolio/orders">>}
SignBodies == {<<>>, [ticker |-> Code_DEN, count |-> 1], [ticker |-> Code_DEN, count |-> 2]}
Salts == {1, 2}

SignedFetch(pathname, method, body, now, salt) ==
    /\ signedFetchStarts(creds)
    /\ stepLog' = <<signedRequest(pathname, method, body, now, salt)>>
    /\ lastEvent' = [kind |-> "sign", timestamp |-> now, method |-> method,
                     pathname |-> pathname, body |-> body, salt |-> salt,
                     resigned |-> /\ lastEvent.kind = "sign"
                                  /\ lastEvent.timestamp = now
                                  /\ lastEvent.method = method
                                  /\ lastEvent.pathname = pathname
                                  /\ lastEvent.body = body,
                     lastSalt |-> IF lastEvent.kind = "sign" THEN lastEvent.salt ELSE 0,
                     lastTimestamp |-> IF lastEvent.kind = "sign" THEN lastEvent.timestamp
                                       ELSE <<>>]
    /\ UNCHANGED relayVars
    /\ UNCHANGED tradeVars

InitSign == InitPopulated /\ InitTrade({FileLive}, {BothKeys})

NextSign ==
    \E pathname \in SignPaths, method \in SignMethods, body \in SignBodies,
       now \in SignTimestamps, salt \in Salts :
        SignedFetch(pathname, method, body, now, salt)

SpecSign == InitSign /\ [][NextSign]_vars

\* SpecPick: one press trading both kinds, in test mode or for real, each
\* listing answered with up to MaxListed markets of a pool: moneylines whose
\* tickers differ in case, spreads priced by a bid, by a bid
\* and an ask, by an ask, by the last trade, or not at all.
SpTk(n) == Code_LAL \o <<".">> \o Code_DEN \o <<".", "S", "P", ".", n, ".", "H">>

PickPool ==
    {Mkt(Tk2(<<"M", "L">>, SegH), {}, {}, {}),
     Mkt(<<"d", "e", "n", ".", "l", "a", "l", ".", "m", "l", ".", "h">>, {}, {}, {}),
     Mkt(Tk(<<"M", "L">>, SegA), {}, {}, {}),
     Mkt(SpTk("1"), {38}, {}, {}),
     Mkt(SpTk("2"), {52}, {}, {}),
     Mkt(SpTk("3"), {61}, {}, {}),
     Mkt(SpTk("4"), {49}, {50}, {}),
     Mkt(SpTk("5"), {}, {50}, {}),
     Mkt(SpTk("6"), {}, {}, {70}),
     Mkt(SpTk("7"), {}, {}, {})}

MaxListed == 3

PickPages ==
    {[markets |-> ms, cursor |-> FALSE] :
        ms \in {f \in UNION {[1..n -> PickPool] : n \in 1..MaxListed} :
                   \A i, j \in 1..Len(f) : f[i] = f[j] => i = j}}

\* The file of the live run has its home code in lower case, as written by
\* hand: the kinds sanitize it when they start.
PickFiles == {[FileBoth EXCEPT !.testMode = TRUE], [FileBoth EXCEPT !.homeCode = <<"d", "e", "n">>]}

InitPick == InitPopulated /\ InitTrade(PickFiles, {BothKeys})

NextPick ==
    \/ \E raw \in Triggers : nPress < MaxTradingPresses /\ OnMessage(1, raw)
    \/ \E p \in Presses : FetchResolves(p, 200)
    \/ \E p \in Presses, page \in PickPages : JsonResolves(p, page)

SpecPick == InitPick /\ [][NextPick]_vars

\* ------------------------------------------------------------ properties
\* The turn that ends in the primed state handled frame type ty of connection c.
Handled(c, ty) ==
    /\ lastEvent'.kind = "message"
    /\ lastEvent'.conn = c
    /\ lastEvent'.msg.type = ty

ErrorTo(c, message) == <<[op |-> "send", to |-> c, msg |-> [type |-> "error", message |-> message]]>>

NoRunStarted ==
    /\ tasks' = tasks
    /\ nPress' = nPress
    /\ testEventLog' = testEventLog
    /\ liveEventLog' = liveEventLog

\* C1: a connection's role is unset until a register frame of that connection
\* is processed; a trigger processed while the role is unset is answered with
\* the error role-not-registered to the sender alone, no connection gets a
\* flash and no run of the trading module is started.
C1_RoleUnsetUntilRegister ==
    /\ [](\A c \in Conns : readyState[c] = "NONE" => role[c] = Unset)
    /\ [][/\ \A c \in Conns :
               role'[c] # role[c] => Handled(c, "register") /\ role'[c] = lastEvent'.msg.arg
          /\ \A c \in Conns :
               Handled(c, "trigger") /\ role[c] = Unset =>
                   /\ stepLog' = ErrorTo(c, "role-not-registered")
                   /\ received' = received
                   /\ NoRunStarted]_vars

\* An unregistered connection triggered while a display and a control were open.
C1_Witness ==
    /\ lastEvent.kind = "message"
    /\ lastEvent.msg.type = "trigger"
    /\ role[lastEvent.conn] = Unset
    /\ stepLog = ErrorTo(lastEvent.conn, "role-not-registered")
    /\ \E d \in Conns : role[d] = "display" /\ readyState[d] = "OPEN"
    /\ \E d \in Conns : role[d] = "control" /\ readyState[d] = "OPEN"

\* C2: a trigger of a connection whose role is display is answered with the
\* error not-authorized to that sender alone; no connection gets a flash and
\* no run of the trading module is started.
C2_DisplayTriggerNotAuthorized ==
    [][\A c \in Conns :
          Handled(c, "trigger") /\ role[c] = "display" =>
              /\ stepLog' = ErrorTo(c, "not-authorized")
              /\ received' = received
              /\ NoRunStarted]_vars

C2_Witness ==
    /\ lastEvent.kind = "message"
    /\ lastEvent.msg.type = "trigger"
    /\ role[lastEvent.conn] = "display"
    /\ stepLog = ErrorTo(lastEvent.conn, "not-authorized")
    /\ \E d \in Conns \ {lastEvent.conn} : role[d] = "display" /\ readyState[d] = "OPEN"

\* The frames of type ty among the effects of the last turn, in order.
Frames(log, ty) == SelectSeq(log, LAMBDA e : e.op = "send" /\ e.msg.type = ty)

Targets(frames) == {frames[i].to : i \in 1..Len(frames)}

OpenDisplays == {d \in Range(clients) : role[d] = "display" /\ readyState[d] = "OPEN"}

\* C3: a trigger of a control connection c sends one flash, carrying the
\* side and by = c, to every registry member whose role is display and whose
\* transport is open, and to nobody else (nothing is kept for the others);
\* it sends exactly one ack, to c alone.
C3_FlashToOpenDisplaysAckToSender ==
    [][\A c \in Conns :
          Handled(c, "trigger") /\ role[c] = "control" =>
              LET flashes == Frames(stepLog', "flash")
                  at == nPress'
              IN /\ Targets(flashes) = OpenDisplays
                 /\ Len(flashes) = Cardinality(OpenDisplays)
                 /\ \A i \in 1..Len(flashes) :
                        flashes[i].msg = [type |-> "flash", side |-> lastEvent'.msg.arg,
                                          at |-> at, by |-> c]
                 /\ Frames(stepLog', "ack") =
                        <<[op |-> "send", to |-> c, msg |-> [type |-> "ack", at |-> at]]>>
                 /\ \A i \in 1..Len(stepLog') :
                        stepLog'[i].op = "send" => stepLog'[i].msg.type \in {"flash", "ack"}
                 /\ \A d \in Conns :
                        received'[d] = IF d \in OpenDisplays
                                       THEN Append(received[d], at)
                                       ELSE received[d]]_vars

\* A press relayed to one open display while another display was closing.
C3_Witness ==
    /\ lastEvent.kind = "message"
    /\ lastEvent.msg.type = "trigger"
    /\ role[lastEvent.conn] = "control"
    /\ Len(Frames(stepLog, "flash")) = 1
    /\ Len(Frames(stepLog, "ack")) = 1
    /\ \E d \in Range(clients) : role[d] = "display" /\ readyState[d] = "CLOSING"

\* C4: after a register frame is processed, and after the close of a
\* connection that had a role, every open connection (with a role or without)
\* is sent one status frame whose counts are the numbers of registry members
\* holding each role at that moment.
C4_StatusAfterRegisterOrClose ==
    (\/ lastEvent.kind = "message" /\ lastEvent.msg.type = "register"
     \/ lastEvent.kind = "close" /\ role[lastEvent.conn] # Unset) =>
        LET statuses == Frames(stepLog, "status")
            open == {c \in Conns : readyState[c] = "OPEN"}
        IN /\ Targets(statuses) = open
           /\ Len(statuses) = Cardinality(open)
           /\ \A i \in 1..Len(statuses) :
                  statuses[i].msg =
                      [type |-> "status",
                       controlCount |-> Cardinality({c \in Range(clients) : role[c] = "control"}),
                       displayCount |-> Cardinality({c \in Range(clients) : role[c] = "display"})]

\* A registered connection closed and the status reached an open connection
\* that never registered.
C4_Witness ==
    /\ lastEvent.kind = "close"
    /\ role[lastEvent.conn] # Unset
    /\ \E i \in 1..Len(stepLog) :
           /\ stepLog[i].op = "send"
           /\ stepLog[i].msg.type = "status"
           /\ role[stepLog[i].to] = Unset

\* C5: a heartbeat tick terminates and removes from the registry every member
\* whose liveness flag is false, within the tick; every other member is marked
\* not alive and pinged.  After a tick every remaining member is marked not
\* alive, so a member that does not pong is gone by the second tick after its
\* last pong.
C5_HeartbeatEvictsStale ==
    /\ [](lastEvent.kind = "heartbeat" => \A c \in Range(clients) : ~isAlive[c])
    /\ [][lastEvent'.kind = "heartbeat" =>
             \A c \in Range(clients) :
                 IF isAlive[c]
                 THEN /\ c \in Range(clients')
                      /\ ~isAlive'[c]
                      /\ readyState'[c] = readyState[c]
                      /\ \E i \in 1..Len(stepLog') : stepLog'[i] = [op |-> "ping", to |-> c]
                 ELSE /\ c \notin Range(clients')
                      /\ readyState'[c] \notin {"OPEN", "NONE"}
                      /\ \E i \in 1..Len(stepLog') : stepLog'[i] = [op |-> "terminate", to |-> c]]_vars

\* One tick terminated a silent member and pinged one that had answered.
C5_Witness ==
    /\ lastEvent.kind = "heartbeat"
    /\ \E i, j \in 1..Len(stepLog) : stepLog[i].op = "terminate" /\ stepLog[j].op = "ping"
    /\ \E c \in Conns : readyState[c] = "CLOSING" /\ c \notin Range(clients)

WellFormed ==
    {[type |-> "register", arg |-> r] : r \in Roles}
    \cup {[type |-> "trigger", arg |-> s] : s \in Sides}
    \cup {[type |-> "ping", arg |-> ""]}

\* C6: a frame that is not a register with a valid role, a trigger with a
\* valid side or a ping is answered with exactly one error invalid-payload, to
\* the sender alone; role, registry and every other connection are unchanged,
\* nothing is broadcast and the sender's connection stays open and keeps
\* having its frames processed.
C6_InvalidPayloadOnlyError ==
    /\ \A raw \in RawMessages : (inboundSchemaParse(raw) = Invalid) <=> (raw \notin WellFormed)
    /\ [][\A c \in Conns :
             lastEvent'.kind = "message" /\ lastEvent'.conn = c /\ lastEvent'.msg = Invalid =>
                 /\ stepLog' = ErrorTo(c, "invalid-payload")
                 /\ UNCHANGED relayVars
                 /\ UNCHANGED tradeVars
                 /\ readyState'[c] = "OPEN"
                 /\ \A raw \in RawMessages \ Triggers : ENABLED OnMessage(c, raw)]_vars

\* A registered display sent a malformed frame while other connections were open.
C6_Witness ==
    /\ lastEvent.kind = "message"
    /\ lastEvent.msg = Invalid
    /\ stepLog = ErrorTo(lastEvent.conn, "invalid-payload")
    /\ role[lastEvent.conn] = "display"
    /\ \E d \in Conns \ {lastEvent.conn} : readyState[d] = "OPEN"

ControlPressed ==
    /\ lastEvent.kind = "message"
    /\ lastEvent.msg.type = "trigger"
    /\ role[lastEvent.conn] = "control"

\* C7: the flash and the ack of a control trigger are written in the turn that
\* processes the frame, before any request of that press to the external API
\* is started, whether or not requests of earlier presses are in flight; no
\* other turn writes a flash or an ack, and frames of every open connection
\* are processed while requests are pending.
C7_RelayBeforeTrading ==
    /\ ControlPressed =>
           /\ \A i, j \in 1..Len(stepLog) :
                  stepLog[i].op = "fetch" /\ stepLog[j].op = "send" => j < i
           /\ Targets(Frames(stepLog, "flash")) = OpenDisplays
           /\ Targets(Frames(stepLog, "ack")) = {lastEvent.conn}
           /\ \A i \in 1..Len(stepLog) : stepLog[i].op = "fetch" => stepLog[i].press = nPress
    /\ ~ControlPressed => Frames(stepLog, "flash") = <<>> /\ Frames(stepLog, "ack") = <<>>
    /\ \A c \in Conns, raw \in Triggers :
           readyState[c] = "OPEN" /\ (role[c] = "control" => nPress < MaxPresses)
               => ENABLED OnMessage(c, raw)

\* The second press was relayed, and its first request started after the
\* relay, while the first press was still waiting for the API.
C7_Witness ==
    /\ ControlPressed
    /\ nPress = 2
    /\ Pending(1)
    /\ Len(Frames(stepLog, "flash")) >= 1
    /\ stepLog[Len(stepLog)].op = "fetch"

\* C8: flashes reach every display in the order in which their triggers were
\* processed, whatever the order in which the trading runs of the presses
\* complete.
C8_FlashOrderIsProcessingOrder ==
    \A d \in Conns : \A i, j \in 1..Len(received[d]) :
        i < j => received[d][i] < received[d][j]

\* The run of the second press completed while the run of the first was
\* still in flight, and the display holds the first flash before the second.
C8_Witness ==
    /\ received[2] = <<1, 2>>
    /\ tasks[2].pc = "done"
    /\ Pending(1)

CancelOutcome == fulfilled([ok |-> TRUE, skippedReason |-> "cancel-action"])

\* C9: a cancel trigger of a control connection is relayed and starts no run
\* of the trading module: no request, no market lookup, no log entry; and the
\* trading module called with cancel settles at once with ok and the skipped
\* reason cancel-action, without a request, under every configuration.
C9_CancelNeverTrades ==
    /\ [](\A p \in Presses :
             LET t == handleKalshiTrigger(p, "cancel", runtimeConfig, creds)
             IN /\ t.pc = "done"
                /\ t.outcome = CancelOutcome
                /\ t.fx = <<>> /\ t.sent = <<>> /\ t.test = <<>> /\ t.live = <<>>)
    /\ [][\A c \in Conns :
             Handled(c, "trigger") /\ lastEvent'.msg.arg = "cancel" /\ role[c] = "control" =>
                 /\ \A i \in 1..Len(stepLog') : stepLog'[i].op = "send"
                 /\ Frames(stepLog', "flash") # <<>>
                 /\ tasks'[nPress'].pc = "none"
                 /\ tasks' = tasks
                 /\ testEventLog' = testEventLog
                 /\ liveEventLog' = liveEventLog]_vars

\* A cancel was relayed while the module was enabled with keys present.
C9_Witness ==
    /\ ControlPressed
    /\ lastEvent.msg.arg = "cancel"
    /\ runtimeConfig.enabled
    /\ creds = BothKeys
    /\ Len(Frames(stepLog, "flash")) = 1

DisabledOutcome == fulfilled([ok |-> TRUE, skippedReason |-> "module-disabled"])

\* C10: while the configuration has enabled = false, a home or away press
\* settles with ok and the skipped reason module-disabled, starts no HTTP
\* request and adds no entry to either event log.
C10_DisabledSkips ==
    [][\A c \in Conns :
          /\ Handled(c, "trigger")
          /\ lastEvent'.msg.arg \in {"home", "away"}
          /\ role[c] = "control"
          /\ ~runtimeConfig.enabled
          => /\ tasks'[nPress'].pc = "done"
             /\ tasks'[nPress'].outcome = DisabledOutcome
             /\ tasks'[nPress'].sent = <<>>
             /\ \A i \in 1..Len(stepLog') : stepLog'[i].op # "fetch"
             /\ testEventLog' = testEventLog
             /\ liveEventLog' = liveEventLog]_vars

\* A press was skipped although moneyline, codes and keys were all set.
C10_Witness ==
    /\ ControlPressed
    /\ lastEvent.msg.arg = "home"
    /\ ~runtimeConfig.enabled
    /\ runtimeConfig.homeCode = Code_DEN
    /\ creds = BothKeys
    /\ tasks[nPress].outcome = DisabledOutcome

\* The turn that ends in the primed state handled a home or away press of
\* the control connection c.
Pressed(c) ==
    /\ Handled(c, "trigger")
    /\ lastEvent'.msg.arg \in {"home", "away"}
    /\ role[c] = "control"

EnabledKinds(cfg) ==
    (IF cfg.moneylineEnabled THEN <<"moneyline">> ELSE <<>>)
    \o (IF cfg.spreadEnabled THEN <<"spread">> ELSE <<>>)

KindsOf(results) == [i \in 1..Len(results) |-> results[i].kind]

NoFetchIn(log) == \A i \in 1..Len(log) : log[i].op # "fetch"

\* C11: with the module enabled and sport, competition, scope, home code or
\* away code empty once trimmed or sanitized, every enabled kind returns
\* ok:true with a skip reason and the press starts no request at all.
C11_MissingMatchupSkips ==
    [][\A c \in Conns :
          Pressed(c) /\ runtimeConfig.enabled /\ metadataMissing(runtimeConfig) =>
              LET t == tasks'[nPress']
              IN /\ t.pc = "done"
                 /\ KindsOf(t.results) = EnabledKinds(runtimeConfig)
                 /\ \A i \in 1..Len(t.results) :
                        /\ t.results[i].result.ok
                        /\ "skippedReason" \in DOMAIN t.results[i].result
                 /\ t.outcome.state = "fulfilled" /\ t.outcome.value.ok
                 /\ t.sent = <<>>
                 /\ NoFetchIn(stepLog')
                 /\ liveEventLog' = liveEventLog]_vars

\* Both kinds skipped for a blank home code although live trading with both
\* keys was configured.
C11_Witness ==
    /\ ControlPressed
    /\ runtimeConfig.homeCode = Code_Blank
    /\ ~runtimeConfig.testMode
    /\ creds = BothKeys
    /\ KindsOf(tasks[nPress].results) = <<"moneyline", "spread">>
    /\ tasks[nPress].results[1].result = [ok |-> TRUE, skippedReason |-> "missing-ticker"]
    /\ tasks[nPress].results[2].result = [ok |-> TRUE, skippedReason |-> "missing-event-ticker"]

IsOrder(e) == e.op = "fetch" /\ e.method = "POST" /\ e.path = "/portfolio/orders"

\* What the last turn appended to a log or to a run's results.
Added(before, after) == SubSeq(after, Len(before) + 1, Len(after))

ListedTickers == UNION {{pg.markets[i].ticker : i \in 1..Len(pg.markets)} : pg \in ListingPages}

\* C12 (as the code has it): a run whose configuration has testMode true
\* never sends an order-placement request; a kind of it never returns a placed
\* or rejected order; and each kind that resolves a ticker from the listing
\* returns ok:true with reason test-mode in the turn that records the
\* would-be order (that ticker, count = betUnitSize) in the test log.  The
\* market lookup before it is a network call in test mode as well.
C12_TestModeLogsOrder ==
    [][/\ \A c \in Conns :
             Pressed(c) /\ runtimeConfig.testMode =>
                 /\ \A i \in 1..Len(stepLog') : stepLog'[i].op = "fetch" => ~IsOrder(stepLog'[i])
                 /\ \A i \in 1..Len(tasks'[nPress'].results) :
                        tasks'[nPress'].results[i].result.ok
       /\ \A p \in Presses :
          Pending(p) /\ tasks[p].cfg.testMode =>
              LET cfg == tasks[p].cfg
                  results == Added(tasks[p].results, tasks'[p].results)
                  logged == Added(testEventLog, testEventLog')
              IN /\ \A i \in 1..Len(stepLog') :
                        ~(IsOrder(stepLog'[i]) /\ stepLog'[i].press = p)
                 /\ \A i \in 1..Len(tasks'[p].sent) : ~IsOrder(tasks'[p].sent[i])
                 /\ \A i \in 1..Len(results) :
                        LET r == results[i].result
                        IN /\ r # [ok |-> TRUE]
                           /\ "skippedReason" \in DOMAIN r => r.skippedReason # "missing-credentials"
                           /\ r = [ok |-> TRUE, skippedReason |-> "test-mode"] =>
                                  \E j \in 1..Len(logged) :
                                      /\ logged[j].ticker \in ListedTickers
                                      /\ logged[j].count = cfg.betUnitSize
                                      /\ "ticker" \in DOMAIN logged[j].body
                                      /\ logged[j].body.ticker = logged[j].ticker
                                      /\ logged[j].body.count = cfg.betUnitSize]_vars

\* The moneyline would-be order of a home press, three units, is in the test
\* log; the press had sent the market lookup and nothing else.
C12_Witness ==
    /\ lastEvent.kind = "json"
    /\ \E i \in 1..Len(testEventLog) :
           /\ testEventLog[i].ticker = Tk(<<"M", "L">>, SegH)
           /\ testEventLog[i].count = 3
           /\ testEventLog[i].body = [ticker |-> Tk(<<"M", "L">>, SegH), side |-> "yes",
                                      action |-> "buy", count |-> 3, type |-> "market"]
    /\ tasks[1].results # <<>>
    /\ tasks[1].results[1] = [kind |-> "moneyline",
                              result |-> [ok |-> TRUE, skippedReason |-> "test-mode"]]
    /\ tasks[1].sent # <<>>
    /\ \A i \in 1..Len(tasks[1].sent) : tasks[1].sent[i].method = "GET"

\* C12 as stated: a run whose configuration has testMode true makes no network
\* call at all.
C12_TestModeNoNetworkCall ==
    \A p \in Presses : Pending(p) /\ tasks[p].cfg.testMode => tasks[p].sent = <<>>

\* C13 as stated: no order-placement request is started in a turn in which the
\* running configuration has testMode true.
C13_NoOrderWhileRunningConfigTestMode ==
    \A i \in 1..Len(stepLog) : IsOrder(stepLog[i]) => ~runtimeConfig.testMode

\* C14 as stated (read with the matchup fields present): with the module
\* enabled, testMode false and a credential absent, a press sends no request
\* and every enabled kind, moneyline as well as spread, returns ok:false with
\* the skip reason missing-credentials.
C14_MissingCredentialsEveryKind ==
    \A p \in Presses :
        /\ tasks[p].pc # "none"
        /\ runtimeConfig.enabled
        /\ ~runtimeConfig.testMode
        /\ ~metadataMissing(runtimeConfig)
        /\ credentialsMissing(creds)
        => /\ tasks[p].sent = <<>>
           /\ tasks[p].pc = "done"
           /\ KindsOf(tasks[p].results) = EnabledKinds(runtimeConfig)
           /\ \A i \in 1..Len(tasks[p].results) :
                  LET r == tasks[p].results[i].result
                  IN ~r.ok /\ "skippedReason" \in DOMAIN r /\ r.skippedReason = "missing-credentials"

\* C15: for a home or away press with the module enabled and a kind enabled,
\* the trigger result is ok:true exactly when every enabled kind returned
\* ok:true, and it is ok:false as soon as a kind returned ok:false.
C15_OverallOkIffEveryKindOk ==
    \A p \in Presses :
        tasks[p].pc = "done" /\ runtimeConfig.enabled /\ EnabledKinds(runtimeConfig) # <<>> =>
            LET t == tasks[p]
                everyKindOk == /\ KindsOf(t.results) = EnabledKinds(runtimeConfig)
                               /\ \A i \in 1..Len(t.results) : t.results[i].result.ok
                okTrue == t.outcome.state = "fulfilled" /\ t.outcome.value.ok
                okFalse == t.outcome.state = "fulfilled" /\ ~t.outcome.value.ok
            IN /\ okTrue <=> everyKindOk
               /\ (\E i \in 1..Len(t.results) : ~t.results[i].result.ok) => okFalse

\* The moneyline order failed, the spread order was placed, the press failed.
C15_Witness ==
    /\ tasks[1].pc = "done"
    /\ KindsOf(tasks[1].results) = <<"moneyline", "spread">>
    /\ ~tasks[1].results[1].result.ok
    /\ tasks[1].results[2].result = [ok |-> TRUE]
    /\ tasks[1].outcome = fulfilled([ok |-> FALSE, error |-> <<"one-or-more-orders-failed">>])

\* C16 as stated (both credentials present): with moneyline and spread both
\* enabled, a finished home or away press has attempted the spread, whatever
\* became of the moneyline.
C16_SpreadAttemptedWhateverMoneyline ==
    \A p \in Presses :
        /\ tasks[p].pc = "done"
        /\ creds = BothKeys
        /\ runtimeConfig.enabled
        /\ runtimeConfig.moneylineEnabled
        /\ runtimeConfig.spreadEnabled
        => \E i \in 1..Len(tasks[p].results) : tasks[p].results[i].kind = "spread"

\* C17 as stated (both credentials present): handleKalshiTrigger never
\* rejects; every run ends with a result value.
C17_TriggerNeverRejects ==
    \A p \in Presses : creds = BothKeys => tasks[p].outcome.state # "rejected"

OrdersSent(p, kind) ==
    {i \in 1..Len(tasks[p].sent) : IsOrder(tasks[p].sent[i]) /\ tasks[p].sent[i].kind = kind}

Kinds == {"moneyline", "spread"}

\* C18: a press sends at most one order-placement request per kind, so n
\* presses send at most n per kind; once the order request of a kind is out,
\* whatever its answer (failure and timeout included) no request of that kind
\* is started again for the press, and a failed lookup is not repeated either.
C18_NoRetry ==
    /\ [](\A kind \in Kinds :
             /\ \A p \in Presses : Cardinality(OrdersSent(p, kind)) <= 1
             /\ Cardinality({p \in Presses : OrdersSent(p, kind) # {}}) <= nPress)
    /\ [][\A p \in Presses :
             /\ Pending(p)
             /\ \/ tasks[p].pc \in {"order_fetch", "order_text"}
                \/ lastEvent'.kind \in {"fetch-error", "text"} /\ lastEvent'.press = p
             => \A i \in 1..Len(stepLog') :
                    ~(/\ stepLog'[i].op = "fetch"
                      /\ stepLog'[i].press = p
                      /\ stepLog'[i].kind = tasks[p].kind)]_vars

\* The moneyline order of the first press timed out and was sent once; the
\* press went on to its spread order, and the second press sent its own.
C18_Witness ==
    /\ tasks[1].pc = "done"
    /\ Len(tasks[1].results) = 2
    /\ tasks[1].results[1] = [kind |-> "moneyline",
                              result |-> [ok |-> FALSE, error |-> <<"fetch-timeout">>]]
    /\ Cardinality(OrdersSent(1, "moneyline")) = 1
    /\ Cardinality(OrdersSent(1, "spread")) = 1
    /\ Cardinality(OrdersSent(2, "moneyline")) = 1

LiveEntryFields == {"side", "kind", "ticker", "count", "status", "responseBody", "error", "note"}

\* C19 as stated: when the order request of a kind is answered 401, the kind
\* returns ok:false with the error "Kalshi request failed (401)" and the live
\* log entry recorded for it holds the status, the response body and, in some
\* further field, the signed payload of the rejected request.
C19_AuthFailureLogsSignedPayload ==
    [][\A p \in Presses :
          /\ Pending(p)
          /\ tasks[p].pc = "order_text"
          /\ tasks[p].status = 401
          /\ lastEvent'.kind = "text"
          /\ lastEvent'.press = p
          => LET t == tasks[p]
                 r == Added(t.results, tasks'[p].results)[1].result
                 e == Added(liveEventLog, liveEventLog')[1]
             IN /\ r = [ok |-> FALSE, error |-> <<"Kalshi request failed (", "401", ")">>]
                /\ e.status = 401
                /\ "responseBody" \in DOMAIN e
                /\ \E f \in DOMAIN e \ LiveEntryFields :
                       e[f] = signaturePayload("POST", "/portfolio/orders",
                                               orderBody(t.ticker, t.cfg))]_vars

\* The market passes the filter of run t: both team codes among the ticker's
\* segments, the family marker of the kind, and the side marker of the press.
Passes(m, t) ==
    LET segments == normalizeSegments(m.ticker)
    IN /\ hasTeamCodes(m.ticker, sanitizeToken(t.cfg.homeCode), sanitizeToken(t.cfg.awayCode))
       /\ (IF t.kind = "moneyline" THEN isMoneyline(segments) ELSE isSpread(segments))
       /\ extractSide(segments) = sideCodeOf(t.side)

SkipReasons == {"no-markets", "no-moneyline", "no-spreads"}

\* Run t got the listing and became run after: its kind was skipped.
SkippedFor(t, listing, after) ==
    LET new == Added(t.results, after.results)
    IN /\ Len(new) >= 1
       /\ new[1].kind = t.kind
       /\ new[1].result.ok
       /\ DOMAIN new[1].result = {"ok", "skippedReason"}
       /\ new[1].result.skippedReason \in SkipReasons
       /\ listing = <<>> => new[1].result.skippedReason = "no-markets"
       /\ \A i \in 1..Len(after.fx) : IsOrder(after.fx[i]) => after.fx[i].kind # t.kind
       /\ after.outcome.state # "rejected"

\* C20: whenever a lookup ends (its last page arrives, or the API answers 404)
\* with an empty listing or with no market passing the filter of the kind and
\* side, the kind returns ok:true with reason no-markets, no-moneyline or
\* no-spreads, and the turn starts no order request for that kind.
C20_NoMatchIsASkip ==
    \A p \in Presses :
        /\ tasks[p].pc = "markets_json" =>
               \A page \in ListingPages :
                   LET t == tasks[p]
                       listing == t.all \o page.markets
                   IN /\ ~(page.cursor /\ t.page < maxPages)
                      /\ \A i \in 1..Len(listing) : ~Passes(listing[i], t)
                      => SkippedFor(t, listing, jsonResolved(t, page, creds))
        /\ tasks[p].pc = "markets_fetch" =>
               LET t == tasks[p]
               IN (\A i \in 1..Len(t.all) : ~Passes(t.all[i], t))
                  => SkippedFor(t, t.all, fetchResolved(t, 404, creds))

\* A lookup that found only a spread market of the other side ended: the
\* moneyline was skipped as no-moneyline and nothing was ordered.
C20_Witness ==
    /\ lastEvent.kind \in {"json", "response"}
    /\ tasks[1].results # <<>>
    /\ tasks[1].results[1] = [kind |-> "moneyline",
                              result |-> [ok |-> TRUE, skippedReason |-> "no-moneyline"]]
    /\ \A i \in 1..Len(tasks[1].sent) : ~IsOrder(tasks[1].sent[i])
    /\ \E i \in 1..Len(liveEventLog) :
           "note" \in DOMAIN liveEventLog[i] /\ liveEventLog[i].note = "no-moneyline-market"

\* The lookups run p has started for a kind.
LookupsSent(p, kind) ==
    {i \in 1..Len(tasks[p].sent) :
        /\ tasks[p].sent[i].method = "GET"
        /\ tasks[p].sent[i].path = "/markets"
        /\ tasks[p].sent[i].kind = kind}

\* C30: a lookup requests at most 10 pages; when the tenth page arrives with
\* a continuation cursor no further page is requested and the kind is resolved
\* in that turn from the markets collected on the pages so far.
C30_ListingStopsAtMaxPages ==
    /\ [](\A p \in Presses :
             /\ Pending(p) => tasks[p].page <= maxPages
             /\ \A kind \in Kinds : Cardinality(LookupsSent(p, kind)) <= maxPages)
    /\ [][\A p \in Presses :
             /\ Pending(p)
             /\ tasks[p].pc = "markets_json"
             /\ tasks[p].page = maxPages
             /\ lastEvent'.kind = "json"
             /\ lastEvent'.press = p
             => LET t == tasks[p]
                    new == Added(t.results, tasks'[p].results)
                    logged == Added(testEventLog, testEventLog')
                IN /\ \A i \in 1..Len(stepLog') :
                          ~(stepLog'[i].op = "fetch" /\ stepLog'[i].press = p
                            /\ stepLog'[i].kind = t.kind)
                   /\ Len(new) >= 1
                   /\ new[1].kind = t.kind
                   /\ t.all # <<>> => new[1].result # [ok |-> TRUE, skippedReason |-> "no-markets"]
                   /\ (\E i \in 1..Len(t.all) : Passes(t.all[i], t)) =>
                          /\ new[1].result = [ok |-> TRUE, skippedReason |-> "test-mode"]
                          /\ Len(logged) >= 1
                          /\ \E i \in 1..Len(t.all) :
                                 Passes(t.all[i], t) /\ logged[1].ticker = t.all[i].ticker]_vars

\* Ten pages were requested, each answered with a cursor; the market of an
\* early page was resolved and logged after the tenth.
C30_Witness ==
    /\ tasks[1].pc = "done"
    /\ Cardinality(LookupsSent(1, "moneyline")) = maxPages
    /\ Len(tasks[1].sent) = maxPages
    /\ Len(tasks[1].results) = 1
    /\ tasks[1].results[1] = [kind |-> "moneyline",
                              result |-> [ok |-> TRUE, skippedReason |-> "test-mode"]]
    /\ Len(testEventLog) = 1
    /\ testEventLog[1].ticker = Tk(<<"M", "L">>, SegH)

RoleCount(rl, r) == Cardinality({d \in Range(clients) : rl[d] = r})

\* C29: a register frame sets the sender's role to the role it names whether
\* or not the sender had a role, and changes no other role; the registered
\* reply and the status frames of that turn count the roles as they are after
\* it; a trigger is refused as not-authorized exactly when the sender's role
\* at that moment is display, and the flashes of a trigger go to the
\* connections whose role at that moment is display.
C29_ReRegisterOverwrites ==
    [][\A c \in Conns :
          /\ role'[c] # role[c] => Handled(c, "register")
          /\ Handled(c, "register") =>
                 LET r == lastEvent'.msg.arg
                     statuses == Frames(stepLog', "status")
                 IN /\ role' = [role EXCEPT ![c] = r]
                    /\ Frames(stepLog', "registered") =
                           <<[op |-> "send", to |-> c,
                              msg |-> [type |-> "registered", role |-> r,
                                       displayCount |-> RoleCount(role', "display"),
                                       controlCount |-> RoleCount(role', "control")]]>>
                    /\ Len(statuses) >= 1
                    /\ \A i \in 1..Len(statuses) :
                           /\ statuses[i].msg.displayCount = RoleCount(role', "display")
                           /\ statuses[i].msg.controlCount = RoleCount(role', "control")
          /\ Handled(c, "trigger") =>
                 /\ (stepLog' = ErrorTo(c, "not-authorized")) <=> (role[c] = "display")
                 /\ Frames(stepLog', "flash") # <<>> => role[c] = "control"
                 /\ \A d \in Targets(Frames(stepLog', "flash")) : role[d] = "display"]_vars

\* Only two connections exist and each has received a flash of the other, so
\* each has been control and display in turn; the first, now display, has
\* just been refused a trigger.
C29_Witness ==
    /\ nextId = 3
    /\ received[1] # <<>>
    /\ received[2] # <<>>
    /\ role[1] = "display"
    /\ lastEvent = [kind |-> "message", conn |-> 1, msg |-> [type |-> "trigger", arg |-> "home"]]
    /\ stepLog = ErrorTo(1, "not-authorized")

\* The event run p is waiting for can be delivered.
CanResume(p) ==
    \/ ENABLED FetchResolves(p, 200)
    \/ ENABLED JsonResolves(p, [markets |-> <<>>, cursor |-> FALSE])
    \/ ENABLED TextResolves(p, <<>>)

\* C28: a run in flight is left exactly as it is by every frame processed
\* after it started, a cancel trigger included, and the event it waits for
\* stays deliverable, so it goes on to its order request; a cancel press
\* starts no run of its own and touches no other.
C28_NoMidFlightCancel ==
    /\ [](\A p \in Presses : Pending(p) => CanResume(p))
    /\ [][\A p \in Presses :
             /\ Pending(p) /\ lastEvent'.kind = "message" => tasks'[p] = tasks[p]
             /\ \A c \in Conns :
                    Handled(c, "trigger") /\ lastEvent'.msg.arg = "cancel" /\ role[c] = "control" =>
                        /\ tasks'[nPress'].pc = "none"
                        /\ \A q \in Presses \ {nPress'} : tasks'[q] = tasks[q]]_vars

\* The first press was waiting for its listing when a cancel was processed
\* as the second press; the listing then arrived and the order went out.
C28_Witness ==
    /\ nPress = 2
    /\ tasks[2].pc = "none"
    /\ lastEvent.kind = "json"
    /\ lastEvent.press = 1
    /\ tasks[1].pc = "order_fetch"
    /\ Len(stepLog) = 1
    /\ IsOrder(stepLog[1])
    /\ stepLog[1].press = 1

PositiveInt(n) == n \in Nat \ {0}

\* C25: in every reachable state (after the load of a file whose unit size is
\* zero, fractional or not a number, and after any updates, refused or
\* applied) the running betUnitSize is an integer >= 1; updateKalshiConfig
\* called with a zero, negative, fractional or non-finite size yields one as
\* well; and the count of every order sent or logged is an integer >= 1.
C25_UnitSizePositiveInteger ==
    /\ PositiveInt(runtimeConfig.betUnitSize)
    /\ \A v \in UnitSizes :
           PositiveInt(updateKalshiConfig([betUnitSize |-> v], runtimeConfig).betUnitSize)
    /\ \A p \in Presses : \A i \in 1..Len(tasks[p].sent) :
           IsOrder(tasks[p].sent[i]) => PositiveInt(tasks[p].sent[i].body.count)
    /\ \A i \in 1..Len(testEventLog) : PositiveInt(testEventLog[i].count)

\* The file said 2.5 units; the order built from the loaded configuration
\* asks for 2.
C25_Witness ==
    /\ "betUnitSize" \in DOMAIN configFile
    /\ configFile.betUnitSize = Frac(5, 2)
    /\ runtimeConfig.betUnitSize = 2
    /\ lastEvent.kind = "json"
    /\ lastEvent.press = 1
    /\ Len(stepLog) = 1
    /\ IsOrder(stepLog[1])
    /\ stepLog[1].body.count = 2

IsToken(str) == \A i \in 1..Len(str) : str[i] \in TokenChars

\* C26 as stated: in every reachable state the home code, the away code and
\* the league of the running configuration consist of characters of
\* [A-Z0-9_.-] only.
C26_TokensSanitized ==
    /\ IsToken(runtimeConfig.homeCode)
    /\ IsToken(runtimeConfig.awayCode)
    /\ "league" \in DOMAIN runtimeConfig => IsToken(runtimeConfig.league)

\* C27: applying a body a second time, right after it was applied, with the
\* write succeeding or failing as it did the first time, changes neither the
\* running nor the persisted configuration; and in every reachable state the
\* update function applied twice to any body gives what it gives applied once.
C27_UpdateIdempotent ==
    /\ [](\A body \in ConfigBodies, written \in BOOLEAN :
             kalshiConfigPayloadAccepts(body) =>
                 LET partial == kalshiConfigPayloadParse(body)
                     once == updateKalshiConfig(partial, runtimeConfig)
                     file1 == persistConfig(once, configFile, written)
                     twice == updateKalshiConfig(partial, once)
                 IN /\ twice = once
                    /\ persistConfig(twice, file1, written) = file1)
    /\ [][/\ lastEvent.kind = "config"
          /\ lastEvent'.kind = "config"
          /\ lastEvent'.body = lastEvent.body
          /\ lastEvent'.written = lastEvent.written
          => /\ runtimeConfig' = runtimeConfig
             /\ configFile' = configFile]_vars

\* An update with untrimmed lower-case codes was applied to a configuration
\* loaded from a hand-written file, and written.
C27_Witness ==
    /\ lastEvent = [kind |-> "config", body |-> BodyLive, written |-> TRUE]
    /\ runtimeConfig.homeCode = Code_DEN
    /\ runtimeConfig.awayCode = Code_LAL
    /\ runtimeConfig.betUnitSize = 3
    /\ configFile = [runtimeConfig EXCEPT !.betUnitSize = Num(3)]
    /\ loadConfigFromDisk(configFile) = runtimeConfig
    /\ "league" \in DOMAIN runtimeConfig

Min(a, b) == IF a < b THEN a ELSE b

\* after is before with k entries recorded at its end: it holds at most
\* LogCap entries, and the entries of before that it keeps are the most
\* recent ones, in their order.
Recorded(before, after, k) ==
    /\ Len(after) = Min(Len(before) + k, LogCap)
    /\ Len(after) >= k
    /\ \A i \in 1..(Len(after) - k) : after[i] = before[i + Len(before) + k - Len(after)]

\* The results the kinds returned in the turn, and how many entries the code
\* records with them in each log while the configuration is in test mode.
TurnResults ==
    IF lastEvent'.kind \in {"json", "response"}
    THEN Added(tasks[lastEvent'.press].results, tasks'[lastEvent'.press].results)
    ELSE IF lastEvent'.kind = "message" /\ nPress' # nPress
    THEN tasks'[nPress'].results
    ELSE <<>>

RecordCount(which, rs) ==
    Cardinality({i \in 1..Len(rs) :
        IF which = "test"
        THEN rs[i].kind = "spread" \/ rs[i].result.skippedReason = "test-mode"
        ELSE rs[i].result.skippedReason \in SkipReasons})

LogStep(which, before, after) ==
    IF lastEvent'.kind = "clear"
    THEN after = IF lastEvent'.log = which THEN <<>> ELSE before
    ELSE IF lastEvent'.kind = "get"
    THEN /\ after = before
         /\ lastEvent'.log = which =>
                /\ Len(stepLog'[1].events) = Len(before)
                /\ \A i \in 1..Len(before) :
                       stepLog'[1].events[i] = before[Len(before) - i + 1]
    ELSE Recorded(before, after, RecordCount(which, TurnResults))

\* C24: the test log and the live log never hold more than 100 entries; a
\* turn that records k entries into a log appends them, and if that makes
\* more than 100 it drops the oldest entries and keeps the most recent 100 in
\* order; a read returns the entries newest first and leaves both logs as
\* they are; a clear empties its log and leaves the other as it is.
C24_LogsCappedNewestFirst ==
    /\ [](Len(testEventLog) <= LogCap /\ Len(liveEventLog) <= LogCap)
    /\ [][/\ LogStep("test", testEventLog, testEventLog')
          /\ LogStep("live", liveEventLog, liveEventLog')]_vars

\* The test log held 100 entries when the would-be moneyline order was
\* recorded: the oldest entry is gone, the second oldest is now the first.
C24_Witness ==
    /\ lastEvent.kind = "json"
    /\ lastEvent.press = 1
    /\ Len(testEventLog) = LogCap
    /\ testEventLog[1] = TestEntry(2)
    /\ testEventLog[LogCap - 1] = TestEntry(LogCap)
    /\ testEventLog[LogCap].ticker = Tk(<<"M", "L">>, SegH)

\* Run p has resolved a ticker for its kind and waits for the order's answer.
Resolved(p) == Pending(p) /\ tasks[p].pc = "order_fetch"

\* C22 as stated: two runs of the same kind and side whose listings hold the
\* same markets, in whatever order, resolve the same ticker.
C22_SameMarketsSameTicker ==
    \A p, q \in Presses :
        /\ Resolved(p) /\ Resolved(q)
        /\ tasks[p].kind = tasks[q].kind
        /\ tasks[p].side = tasks[q].side
        /\ Range(tasks[p].all) = Range(tasks[q].all)
        => tasks[p].ticker = tasks[q].ticker

\* C21 as stated: every press's trading operation eventually settles, whatever
\* the API does once the timeout of a signed call is all that is guaranteed.
C21_EveryPressSettles == \A p \in Presses : Pending(p) ~> ~Pending(p)

\* The part of C21 the code keeps: a press waiting on fetch itself leaves that
\* wait (a response, a failure, or the abort after the timeout).
InFetch(p) == tasks[p].pc \in {"markets_fetch", "order_fetch"}

SignedCallCompletes == \A p \in Presses : InFetch(p) ~> ~InFetch(p)

\* Two calls in a row signed the same (timestamp, method, path and query, body).
SameTuple == lastEvent'.kind = "sign" /\ lastEvent'.resigned

\* C23 as stated: re-signing the same tuple with the same key gives the same
\* signature, byte for byte.
C23_ResignByteIdentical ==
    [][SameTuple => stepLog'[1].signature = stepLog[1].signature]_vars

\* C23, amended: re-signing the same tuple signs the same string and sends the
\* same timestamp; both signatures verify against that string; they are equal
\* exactly when the same salt was drawn.
C23_ResignSameStringFreshSalt ==
    [][SameTuple =>
          /\ stepLog'[1].payload = stepLog[1].payload
          /\ stepLog'[1].timestamp = stepLog[1].timestamp
          /\ verify(stepLog[1].signature, stepLog'[1].payload)
          /\ verify(stepLog'[1].signature, stepLog[1].payload)
          /\ (stepLog'[1].signature = stepLog[1].signature
                <=> lastEvent'.salt = lastEvent'.lastSalt)]_vars

\* A POST with a body and a query was signed with salt 2, right after the
\* same tuple had been signed with salt 1.
C23_Witness ==
    /\ lastEvent.kind = "sign"
    /\ lastEvent.resigned
    /\ lastEvent.lastSalt = 1
    /\ lastEvent.salt = 2
    /\ stepLog[1].signature.salt = 2
    /\ stepLog[1].payload =
           <<"1", "7", "P", "O", "S", "T", "/markets", "?", "status=open",
             "{", "ticker", ":", "D", "E", "N", ",", "count", ":", 2, "}">>

\* The order of strings by their code units, the characters of a ticker.
CodeUnitOrder ==
    <<"-", ".", "0", "1", "2", "3", "4", "5", "6", "7", "8", "9">> \o UpperChars
    \o <<"_">> \o LowerChars

codeUnit(ch) == CHOOSE i \in 1..Len(CodeUnitOrder) : CodeUnitOrder[i] = ch

RECURSIVE LexLeq(_, _)
LexLeq(a, b) ==
    IF a = <<>> THEN TRUE
    ELSE IF b = <<>> THEN FALSE
    ELSE IF Head(a) = Head(b) THEN LexLeq(Tail(a), Tail(b))
    ELSE codeUnit(Head(a)) < codeUnit(Head(b))

\* The turn that ends in the primed state delivered a listing to press p
\* while it was resolving kind k.
Listed(p, k) ==
    /\ lastEvent'.kind = "json"
    /\ lastEvent'.press = p
    /\ tasks[p].pc = "markets_json"
    /\ tasks[p].kind = k

\* The markets of that listing that pass the filter of kind k for press p.
Candidates(p, k) ==
    filterMarkets(tasks[p].all \o lastEvent'.page.markets,
                  sanitizeToken(tasks[p].cfg.homeCode), sanitizeToken(tasks[p].cfg.awayCode),
                  IF k = "moneyline" THEN "ML" ELSE "SP", sideCodeOf(tasks[p].side))

\* The tickers that the turn put into an order request or a would-be order.
Picked(p) ==
    {stepLog'[i].body.ticker : i \in {j \in 1..Len(stepLog') : IsOrder(stepLog'[j])}}
    \cup {e.body.ticker : e \in {x \in Range(Added(testEventLog, testEventLog')) :
                                      "ticker" \in DOMAIN x.body}}

\* C31 as stated: when moneyline candidates pass the filter, the ticker chosen
\* is the lexicographically smallest of them.
C31_SmallestMoneylineTicker ==
    [][\A p \in Presses :
          Listed(p, "moneyline") /\ Len(Candidates(p, "moneyline")) > 0
          => \E t \in Picked(p) :
                \A i \in 1..Len(Candidates(p, "moneyline")) :
                    LexLeq(t, Candidates(p, "moneyline")[i].ticker)]_vars

\* The candidates of a spread listing, as a set, and twice the implied price
\* of a market: bid + ask, else twice the bid, the ask, the last trade.
SpreadCandidates(p) ==
    {Candidates(p, "spread")[i] : i \in 1..Len(Candidates(p, "spread"))}

HasPrice(m) == m.yes_bid # {} \/ m.yes_ask # {} \/ m.last_price # {}

Only(set) == CHOOSE x \in set : TRUE

TwiceImplied(m) ==
    IF m.yes_bid # {} /\ m.yes_ask # {} THEN Only(m.yes_bid) + Only(m.yes_ask)
    ELSE IF m.yes_bid # {} THEN 2 * Only(m.yes_bid)
    ELSE IF m.yes_ask # {} THEN 2 * Only(m.yes_ask)
    ELSE 2 * Only(m.last_price)

\* the implied price as the code scores it: the mean of bid and ask rounded
\* to the nearest integer, a half upwards
RoundedImplied(m) == (TwiceImplied(m) + 1) \div 2

\* The pick rule for a price given as price(m) * unit: the pick is a priced
\* candidate; it lies in [40,60] if any priced candidate does; no priced
\* candidate of its pool is nearer to 50.  Without a priced candidate
\* nothing is picked.
PickRule(p, price(_), unit) ==
    LET priced == {m \in SpreadCandidates(p) : HasPrice(m)}
        InBand(m) == 40 * unit <= price(m) /\ price(m) <= 60 * unit
        band == {m \in priced : InBand(m)}
        pool == IF band # {} THEN band ELSE priced
        Dist(m) == IF price(m) < 50 * unit THEN 50 * unit - price(m) ELSE price(m) - 50 * unit
    IN IF priced = {} THEN Picked(p) = {}
       ELSE \E m \in pool :
               /\ Picked(p) = {m.ticker}
               /\ \A o \in pool : Dist(m) <= Dist(o)

\* C32 as stated: the rule with the implied price (bid+ask)/2.
C32_SpreadPickByMidpoint ==
    [][\A p \in Presses : Listed(p, "spread") => PickRule(p, TwiceImplied, 2)]_vars

\* C32, amended: the rule with the implied price rounded to an integer.
C32_SpreadPickByRoundedPrice ==
    [][\A p \in Presses : Listed(p, "spread") => PickRule(p, RoundedImplied, 1)]_vars

\* The listing with spreads priced 38, 52 and 61 was delivered and the order
\* went out for the one priced 52.
C32_Witness ==
    /\ lastEvent.kind = "json"
    /\ lastEvent.page.markets =
           <<Mkt(SpTk("1"), {38}, {}, {}), Mkt(SpTk("2"), {52}, {}, {}),
             Mkt(SpTk("3"), {61}, {}, {})>>
    /\ tasks[1].pc = "order_fetch"
    /\ tasks[1].kind = "spread"
    /\ tasks[1].ticker = SpTk("2")
    /\ tasks[1].price = {52}
    /\ Len(stepLog) = 1
    /\ IsOrder(stepLog[1])
    /\ stepLog[1].body.ticker = SpTk("2")

\* The kind whose listing the turn delivered, and its family marker.
FamilyOf(k) == IF k = "moneyline" THEN <<"M", "L">> ELSE <<"S", "P">>

\* Ticker t has the codes of press p, the family of kind k and the side of
\* the press among the segments that segmentsOf gives for it.
HasMarkers(p, k, t, segmentsOf(_), codeOf(_)) ==
    /\ codeOf(tasks[p].cfg.homeCode) \in Range(segmentsOf(t))
    /\ codeOf(tasks[p].cfg.awayCode) \in Range(segmentsOf(t))
    /\ FamilyOf(k) \in Range(segmentsOf(t))
    /\ sideCodeOf(tasks[p].side) \in Range(segmentsOf(t))

dotSegments(t) == split(t, <<>>)

asConfigured(code) == code

\* C33 as stated: the dot-separated segments of a ticker put into an order or
\* a would-be order hold both configured codes, the family marker of the
\* kind and the side marker of the press.
C33_TickerHasMarkers ==
    [][\A p \in Presses, k \in Kinds :
          Listed(p, k) =>
              \A t \in Picked(p) : HasMarkers(p, k, t, dotSegments, asConfigured)]_vars

\* C33, amended: the same of the segments of the upper-cased ticker and the
\* sanitized codes.
C33_TickerHasMarkersIgnoringCase ==
    [][\A p \in Presses, k \in Kinds :
          Listed(p, k) =>
              \A t \in Picked(p) : HasMarkers(p, k, t, normalizeSegments, sanitizeToken)]_vars

\* The order of a home press configured with the home code "den" went out for
\* the moneyline "den.lal.ml.h".
C33_Witness ==
    /\ lastEvent.kind = "json"
    /\ tasks[1].pc = "order_fetch"
    /\ tasks[1].kind = "moneyline"
    /\ tasks[1].side = "home"
    /\ tasks[1].cfg.homeCode = <<"d", "e", "n">>
    /\ Len(stepLog) = 1
    /\ IsOrder(stepLog[1])
    /\ stepLog[1].body.ticker = <<"d", "e", "n", ".", "l", "a", "l", ".", "m", "l", ".", "h">>

\* The last turn signed a GET or HEAD request.
SignedBodyless ==
    /\ lastEvent.kind = "sign"
    /\ toUpperCase(lastEvent.method) \in {<<"G", "E", "T">>, <<"H", "E", "A", "D">>}

\* C34: a GET or HEAD request has no transport body, and the string signed
\* for it is the timestamp, the method and the path with its query, with
\* nothing of a body after them, whatever body value was passed.
C34_BodylessGetAndHead ==
    SignedBodyless =>
        /\ stepLog[1].body = <<>>
        /\ \A i \in 1..Len(stepLog[1].payload) : stepLog[1].payload[i] \notin {"{", "}", "ticker"}
        /\ Len(stepLog[1].payload) =
              Len(lastEvent.timestamp) + Len(lastEvent.method)
              + (IF lastEvent.pathname[Len(lastEvent.pathname)] = "?"
                 THEN Len(lastEvent.pathname) - 1 ELSE Len(lastEvent.pathname))

\* A "get" was signed with an order body passed in.
C34_Witness ==
    /\ lastEvent.kind = "sign"
    /\ lastEvent.method = <<"g", "e", "t">>
    /\ lastEvent.body = [ticker |-> Code_DEN, count |-> 2]
    /\ stepLog[1].payload = <<"1", "8", "G", "E", "T", "/markets", "?", "status=open">>
    /\ stepLog[1].body = <<>>

\* C35: the request a call builds carries the clock reading of that call as
\* its timestamp header; the string signed begins with that timestamp; the
\* signature is a signature of that string, made with the salt drawn in this
\* call.
C35_TimestampAndSignatureOfThisCall ==
    lastEvent.kind = "sign" =>
        /\ stepLog[1].timestamp = lastEvent.timestamp
        /\ SubSeq(stepLog[1].payload, 1, Len(stepLog[1].timestamp)) = stepLog[1].timestamp
        /\ verify(stepLog[1].signature, stepLog[1].payload)
        /\ stepLog[1].signature.mHash = stepLog[1].payload
        /\ stepLog[1].signature.salt = lastEvent.salt

\* A request was signed at 18 with salt 2 right after one signed at 17 with
\* salt 1.
C35_Witness ==
    /\ lastEvent.kind = "sign"
    /\ lastEvent.lastTimestamp = <<"1", "7">>
    /\ lastEvent.lastSalt = 1
    /\ stepLog[1].timestamp = <<"1", "8">>
    /\ stepLog[1].signature.salt = 2
    /\ stepLog[1].payload[2] = "8"

\* The order requests that the turn ending in the primed state started for
\* press p.
OrdersStarted(p) ==
    {stepLog'[i] : i \in {j \in 1..Len(stepLog') :
                             IsOrder(stepLog'[j]) /\ stepLog'[j].press = p}}

\* C36: a run takes the running configuration when it starts and keeps it
\* while it is pending, whatever updates are applied meanwhile; the orders it
\* sends are those of the configuration it took: not in test mode, of an
\* enabled kind, for its count and its team codes.
C36_ConfigurationReadOnce ==
    [][\A p \in Presses :
          /\ tasks[p].pc = "none" /\ tasks'[p].pc \notin {"none", "done"}
             => tasks'[p].cfg = runtimeConfig
          /\ Pending(p) /\ tasks'[p].pc \notin {"none", "done"}
             => tasks'[p].cfg = tasks[p].cfg
          /\ Pending(p)
             => \A o \in OrdersStarted(p) :
                   /\ ~tasks[p].cfg.testMode
                   /\ o.body.count = tasks[p].cfg.betUnitSize
                   /\ o.kind = "moneyline" => tasks[p].cfg.moneylineEnabled
                   /\ o.kind = "spread" => tasks[p].cfg.spreadEnabled
                   /\ hasTeamCodes(o.body.ticker, sanitizeToken(tasks[p].cfg.homeCode),
                                   sanitizeToken(tasks[p].cfg.awayCode))]_vars

\* The run started with a count of 1; an update made the count 2 and turned
\* test mode on while the listing was awaited; the order then went out for 1.
C36_Witness ==
    /\ lastEvent.kind = "json"
    /\ tasks[1].pc = "order_fetch"
    /\ tasks[1].cfg.betUnitSize = 1
    /\ ~tasks[1].cfg.testMode
    /\ runtimeConfig.betUnitSize = 2
    /\ runtimeConfig.testMode
    /\ Len(stepLog) = 1
    /\ IsOrder(stepLog[1])
    /\ stepLog[1].body.count = 1

\* The last turn was a heartbeat tick that terminated connection c, which
\* had a role.
EvictedWithRole(c) ==
    /\ lastEvent.kind = "heartbeat"
    /\ \E i \in 1..Len(stepLog) : stepLog[i] = [op |-> "terminate", to |-> c]
    /\ role[c] # Unset

\* The last turn handled the 'close' of c and wrote, to every open connection
\* of the registry, a status whose counts are those of the connections other
\* than c.
StatusWithout(c) ==
    /\ lastEvent.kind = "close"
    /\ lastEvent.conn = c
    /\ c \notin Range(clients)
    /\ \A d \in Range(clients) :
          readyState[d] = "OPEN" =>
              \E i \in 1..Len(stepLog) :
                  stepLog[i] =
                      [op |-> "send", to |-> d,
                       msg |-> [type |-> "status",
                                controlCount |->
                                    Cardinality({e \in Range(clients) \ {c} : role[e] = "control"}),
                                displayCount |->
                                    Cardinality({e \in Range(clients) \ {c} : role[e] = "display"})]]

\* C37: after the heartbeat evicts a connection that had a role, the
\* connections still open receive a status counting the registry without it.
C37_StatusAfterEviction == \A c \in Conns : EvictedWithRole(c) ~> StatusWithout(c)

\* The close of the evicted control 1 was handled and display 2, still open,
\* was told that no control is left.
C37_Witness ==
    /\ lastEvent.kind = "close"
    /\ lastEvent.conn = 1
    /\ role[1] = "control"
    /\ isAlive[1] = FALSE
    /\ 1 \notin Range(clients)
    /\ 2 \in Range(clients)
    /\ readyState[2] = "OPEN"
    /\ role[2] = "display"
    /\ stepLog = <<[op |-> "send", to |-> 2,
                    msg |-> [type |-> "status", controlCount |-> 0, displayCount |-> 1]]>>

\* C38, turn by turn.  A connection is alive when it is accepted and when its
\* pong is handled, and only a heartbeat tick marks it not alive; a tick
\* leaves a connection that is alive in the registry, untouched but for the
\* mark and the ping; a pong changes nothing but that mark, and not even the
\* mark when its connection has left the registry.
C38_PongKeepsConnection ==
    [][\A c \in Conns :
          /\ lastEvent'.kind = "connection" /\ lastEvent'.conn = c
             => isAlive'[c] /\ c \in Range(clients')
          /\ lastEvent'.kind = "pong" /\ lastEvent'.conn = c
             => /\ clients' = clients
                /\ readyState' = readyState
                /\ isAlive' = IF c \in Range(clients) THEN [isAlive EXCEPT ![c] = TRUE]
                               ELSE isAlive
          /\ isAlive[c] /\ ~isAlive'[c] => lastEvent'.kind = "heartbeat"
          /\ lastEvent'.kind = "heartbeat" /\ c \in Range(clients) /\ isAlive[c]
             => /\ c \in Range(clients')
                /\ readyState'[c] = readyState[c]
                /\ \E i \in 1..Len(stepLog') : stepLog'[i] = [op |-> "ping", to |-> c]
                /\ \A i \in 1..Len(stepLog') : stepLog'[i] # [op |-> "terminate", to |-> c]]_vars

\* A tick pinged connection 1, which had answered the ping of an earlier
\* tick, and terminated connection 2, which had not.
C38_Witness ==
    /\ lastEvent.kind = "heartbeat"
    /\ stepLog = <<[op |-> "ping", to |-> 1], [op |-> "terminate", to |-> 2]>>
    /\ clients = <<1>>
    /\ readyState[1] = "OPEN"
    /\ nextId = 3

\* The events in which a pending run is resumed, and the frames among the
\* effects of a turn.
TradingEvents == {"response", "fetch-error", "json", "json-error", "text"}

Sends(log) ==
    LET idx == {i \in 1..Len(log) : log[i].op = "send"}
    IN [j \in 1..Cardinality(idx) |->
          log[CHOOSE i \in idx : Cardinality({k \in idx : k < i}) = j - 1]]

\* C39: a turn that resumes a run, however the run goes on or ends, writes
\* to no socket and leaves the registry, the sockets, the roles, the alive
\* marks and the flashes delivered so far as they were; and the frames of the
\* turn of a press are the flash to the open displays and the ack, whatever
\* the run started by the press does in that turn.
C39_TradingLeavesRelayAlone ==
    [][/\ lastEvent'.kind \in TradingEvents
          => /\ Sends(stepLog') = <<>>
             /\ \A i \in 1..Len(stepLog') : stepLog'[i].op = "fetch"
             /\ clients' = clients
             /\ readyState' = readyState
             /\ role' = role
             /\ isAlive' = isAlive
             /\ received' = received
             /\ nPress' = nPress
       /\ lastEvent'.kind = "message" /\ nPress' = nPress + 1
          => /\ Sends(stepLog') =
                   relayTrigger(lastEvent'.conn, lastEvent'.msg.arg, nPress',
                                clients, role, readyState)
             /\ received' = Deliver(received, Sends(stepLog'))
             /\ clients' = clients
             /\ readyState' = readyState
             /\ role' = role]_vars

\* The order of press 1 was refused by the API and the run ended with a
\* failed kind: nothing was sent in that turn, and display 2 holds the flash
\* of the press.
C39_Witness ==
    /\ lastEvent.kind = "text"
    /\ lastEvent.press = 1
    /\ tasks[1].pc = "done"
    /\ \E i \in 1..Len(tasks[1].results) : ~tasks[1].results[i].result.ok
    /\ stepLog = <<>>
    /\ received[2] = <<1>>
    /\ role[2] = "display"
    /\ readyState[2] = "OPEN"

====
